---- MODULE Spec2Model ----
(***************************************************************************)
(* Model of the evm-tui orchestration layer: the navigation state machine, *)
(* the dispatcher, the favorites toggle, the hydration tasks, the message  *)
(* channel and the main loop of src/app/mod.rs together with the sidebar,  *)
(* main-view, top-bar and secrets-modal components it drives.              *)
(*                                                                         *)
(* Text is modelled as a sequence of fragments.  Identifiers (addresses,   *)
(* hashes, secrets, search input) are spelled one character per fragment,  *)
(* so length, prefix, case and equality behave as for the Rust strings.    *)
(* Option<T> is a sequence of length at most one.                          *)
(***************************************************************************)
EXTENDS Integers, Sequences, FiniteSets, TLC

VARIABLES running, state, storage, top_bar, sidebar, secrets_modal,
          channel, tasks, pc, inputs, toggle_log, dispatched, fn_in, fn_out

vars == <<running, state, storage, top_bar, sidebar, secrets_modal,
          channel, tasks, pc, inputs, toggle_log, dispatched, fn_in, fn_out>>

app_vars == <<running, state, storage, top_bar, sidebar, secrets_modal, tasks>>

(***************************************************************************)
(* Bounds of the model.                                                    *)
(***************************************************************************)
MaxInputs == 3
MaxInFlight == 2
MaxOps == 3

(***************************************************************************)
(* Option and string helpers.                                              *)
(***************************************************************************)
None == <<>>

Some(x) == <<x>>

IsSome(o) == o # <<>>

Unwrap(o) == o[1]

Rep(c, n) == [i \in 1..n |-> c]

UpperLetters == <<"A","B","C","D","E","F","G","H","I","J","K","L","M",
                  "N","O","P","Q","R","S","T","U","V","W","X","Y","Z">>

LowerLetters == <<"a","b","c","d","e","f","g","h","i","j","k","l","m",
                  "n","o","p","q","r","s","t","u","v","w","x","y","z">>

HexDigits == {"0","1","2","3","4","5","6","7","8","9",
              "a","b","c","d","e","f","A","B","C","D","E","F"}

to_ascii_lowercase(c) ==
    IF \E i \in 1..26 : UpperLetters[i] = c
    THEN LowerLetters[CHOOSE i \in 1..26 : UpperLetters[i] = c]
    ELSE c

eq_ignore_ascii_case(s, t) ==
    /\ Len(s) = Len(t)
    /\ \A i \in 1..Len(s) : to_ascii_lowercase(s[i]) = to_ascii_lowercase(t[i])

\* A character the lexer of TLA+ does not accept inside a string is written
\* by its code point: "U+00A0" is the one character NO-BREAK SPACE.  Every
\* other element of a text is a piece of ASCII text, one character or more.
OneByteChars == {"U+000B", "U+0060"}

TwoByteChars == {"U+0085", "U+00A0", "U+00E9"}

ThreeByteChars ==
    {"U+1680", "U+2000", "U+2001", "U+2002", "U+2003", "U+2004", "U+2005",
     "U+2006", "U+2007", "U+2008", "U+2009", "U+200A", "U+2022", "U+2026",
     "U+2028", "U+2029", "U+202F", "U+205F", "U+2192", "U+3000"}

FourByteChars == {"U+1F600"}

NamedChars == OneByteChars \cup TwoByteChars \cup ThreeByteChars \cup FourByteChars

Backtick == "U+0060"
EAcute == "U+00E9"
NoBreakSpace == "U+00A0"
Bullet == "U+2022"
Ellipsis == "U+2026"
RightArrow == "U+2192"

\* The characters of a text, one element each.
Chars(piece) ==
    IF piece \in NamedChars THEN <<piece>>
    ELSE [i \in 1..Len(piece) |-> SubSeq(piece, i, i)]

RECURSIVE FlattenPieces(_)
FlattenPieces(s) == IF s = <<>> THEN <<>> ELSE Chars(Head(s)) \o FlattenPieces(Tail(s))

\* The text as a sequence of characters.  (The quantifier over the one-element
\* set has the text evaluated once.)
Flatten(s) ==
    CHOOSE flat \in {IF \A i \in 1..Len(v) : Len(v[i]) = 1 THEN v ELSE FlattenPieces(v) :
                        v \in {s}} : TRUE

\* char::is_whitespace: the characters with the Unicode property White_Space.
White_Space ==
    {"\t", "\n", "U+000B", "\f", "\r", " ", "U+0085", "U+00A0", "U+1680",
     "U+2000", "U+2001", "U+2002", "U+2003", "U+2004", "U+2005", "U+2006",
     "U+2007", "U+2008", "U+2009", "U+200A", "U+2028", "U+2029", "U+202F",
     "U+205F", "U+3000"}

RECURSIVE TrimStart(_)
TrimStart(s) ==
    IF s # <<>> /\ Head(s) \in White_Space THEN TrimStart(Tail(s)) ELSE s

RECURSIVE TrimEnd(_)
TrimEnd(s) ==
    IF s # <<>> /\ s[Len(s)] \in White_Space
    THEN TrimEnd(SubSeq(s, 1, Len(s) - 1))
    ELSE s

\* str::trim.
Trim(s) ==
    CHOOSE trimmed \in {TrimEnd(t) : t \in {TrimStart(flat) : flat \in {Flatten(s)}}} : TRUE

Min(a, b) == IF a <= b THEN a ELSE b

\* The length of a character's UTF-8 encoding.
Utf8Len(c) ==
    IF Len(c) = 1 THEN 1
    ELSE IF c \in TwoByteChars THEN 2
    ELSE IF c \in ThreeByteChars THEN 3
    ELSE IF c \in FourByteChars THEN 4
    ELSE 1

\* str::len: the length in bytes.
ByteLen(s) ==
    CHOOSE bytes \in
        {Cardinality({byte \in (1..Len(v)) \X (1..4) : byte[2] <= Utf8Len(v[byte[1]])}) :
            v \in {s}} : TRUE

\* The numbers of leading characters of `s` that fill exactly `index` bytes:
\* one number where `index` is a char boundary (str::is_char_boundary), none
\* where it lies inside a character.  `len` is the length of `s` in bytes.
CharsUpTo(s, len, index) ==
    IF len = Len(s)
    THEN {index}
    ELSE {k \in 0..Len(s) : ByteLen(SubSeq(s, 1, k)) = index}

\* The outcome of a computation that panicked: slicing a str at a byte index
\* that is not a char boundary panics.
Panic == <<"panicked: byte index is not a char boundary">>

\* The same where the computation builds a record.
Unwound == [panic |-> TRUE]

\* The text was formatted from a value whose computation panicked: the
\* panic happened before the text existed.
Panics(text) == \E t \in {text} : \E i \in 1..Len(t) : t[i] = Panic[1]

ShortHexKeep == 10
ShortHexPrefix == 6
ShortHexSuffix == 4

\* `format!("{}...{}", &trimmed[..prefix_len], &trimmed[trimmed.len() - suffix_len..])`,
\* `prefix` and `suffix` the characters in front of the two byte indices.
Slices(trimmed, prefix, suffix) ==
    IF prefix = {} \/ suffix = {}
    THEN Panic
    ELSE SubSeq(trimmed, 1, CHOOSE k \in prefix : TRUE) \o <<"...">>
         \o SubSeq(trimmed, (CHOOSE k \in suffix : TRUE) + 1, Len(trimmed))

\* short_hex after `let trimmed = value.trim();`, `len` being trimmed.len().
short_hex_of(trimmed, len) ==
    LET prefix_len == Min(ShortHexPrefix, len)
        suffix_len == Min(ShortHexSuffix, len - prefix_len)
    IN IF len <= ShortHexKeep
       THEN trimmed
       ELSE CHOOSE short \in
               {Slices(trimmed, boundary[prefix_len], boundary[len - suffix_len]) :
                   boundary \in {[index \in {prefix_len, len - suffix_len} |->
                                      CharsUpTo(trimmed, len, index)]}} : TRUE

short_hex(value) ==
    CHOOSE short \in
       UNION {{short_hex_of(trimmed, len) : len \in {ByteLen(trimmed)}} :
                 trimmed \in {Trim(value)}} : TRUE

(***************************************************************************)
(* Navigation enums and the tab functions (mod navigation).                *)
(***************************************************************************)
FocusedPane == {"Top", "Sidebar", "MainView", "BottomBar", "Modal"}

SidebarTab == {"Addresses", "Transactions"}

MainViewMode == {"Address", "Transaction"}

AddressTabs == {"AddressInfo", "AddressTransactions", "AddressInternal",
                "AddressBalances", "AddressPermissions"}

TransactionTabs == {"TransactionSummary", "TransactionDebug",
                    "TransactionStorageDiff"}

MainViewTab == AddressTabs \cup TransactionTabs

tab_titles(mode) == IF mode = "Address" THEN AddressTabs ELSE TransactionTabs

FocusedPane_from_number(number) ==
    CASE number = 1 -> Some("Top")
      [] number = 2 -> Some("Sidebar")
      [] number = 3 -> Some("MainView")
      [] number = 4 -> Some("BottomBar")
      [] OTHER -> None

SidebarTab_next(tab) == IF tab = "Addresses" THEN "Transactions" ELSE "Addresses"

SidebarTab_previous(tab) == IF tab = "Addresses" THEN "Transactions" ELSE "Addresses"

\* A faulty normalize: it falls back to a tab of the other mode.
normalize_wrong_default(tab, mode) ==
    IF mode = "Address"
    THEN (IF tab \in AddressTabs THEN tab ELSE "TransactionSummary")
    ELSE (IF tab \in TransactionTabs THEN tab ELSE "AddressInfo")

normalize(tab, mode) ==
    IF mode = "Address"
    THEN (IF tab \in AddressTabs THEN tab ELSE "AddressInfo")
    ELSE (IF tab \in TransactionTabs THEN tab ELSE "TransactionSummary")

\* A faulty next: a tab of the other mode is returned as it is.
next_without_normalize(tab, mode) ==
    IF mode = "Address"
    THEN CASE tab = "AddressInfo" -> "AddressTransactions"
           [] tab = "AddressTransactions" -> "AddressInternal"
           [] tab = "AddressInternal" -> "AddressBalances"
           [] tab = "AddressBalances" -> "AddressPermissions"
           [] tab = "AddressPermissions" -> "AddressInfo"
           [] OTHER -> tab
    ELSE CASE tab = "TransactionSummary" -> "TransactionDebug"
           [] tab = "TransactionDebug" -> "TransactionStorageDiff"
           [] tab = "TransactionStorageDiff" -> "TransactionSummary"
           [] OTHER -> tab

next(tab, mode) ==
    LET t == normalize(tab, mode)
    IN IF mode = "Address"
       THEN CASE t = "AddressInfo" -> "AddressTransactions"
              [] t = "AddressTransactions" -> "AddressInternal"
              [] t = "AddressInternal" -> "AddressBalances"
              [] t = "AddressBalances" -> "AddressPermissions"
              [] t = "AddressPermissions" -> "AddressInfo"
              [] OTHER -> t
       ELSE CASE t = "TransactionSummary" -> "TransactionDebug"
              [] t = "TransactionDebug" -> "TransactionStorageDiff"
              [] t = "TransactionStorageDiff" -> "TransactionSummary"
              [] OTHER -> t

previous(tab, mode) ==
    LET t == normalize(tab, mode)
    IN IF mode = "Address"
       THEN CASE t = "AddressInfo" -> "AddressPermissions"
              [] t = "AddressTransactions" -> "AddressInfo"
              [] t = "AddressInternal" -> "AddressTransactions"
              [] t = "AddressBalances" -> "AddressInternal"
              [] t = "AddressPermissions" -> "AddressBalances"
              [] OTHER -> t
       ELSE CASE t = "TransactionSummary" -> "TransactionStorageDiff"
              [] t = "TransactionDebug" -> "TransactionSummary"
              [] t = "TransactionStorageDiff" -> "TransactionDebug"
              [] OTHER -> t

(***************************************************************************)
(* Wei amounts are decimal numerals (U256 does not fit a machine integer): *)
(* a non-empty sequence of digit characters without a leading zero, or     *)
(* <<"0">>.                                                                *)
(***************************************************************************)
EtherDecimals == 18

U256_is_zero(v) == \A i \in 1..Len(v) : v[i] = "0"

format_units_ether(v) ==
    LET padded == IF Len(v) <= EtherDecimals
                  THEN Rep("0", EtherDecimals + 1 - Len(v)) \o v
                  ELSE v
        cut == Len(padded) - EtherDecimals
    IN SubSeq(padded, 1, cut) \o <<".">> \o SubSeq(padded, cut + 1, Len(padded))

RECURSIVE StripTrailingZeros(_)
StripTrailingZeros(s) ==
    IF s # <<>> /\ s[Len(s)] = "0"
    THEN StripTrailingZeros(SubSeq(s, 1, Len(s) - 1))
    ELSE s

trim_decimal(value) ==
    IF \E i \in 1..Len(value) : value[i] = "."
    THEN LET z == StripTrailingZeros(value)
         IN IF z # <<>> /\ z[Len(z)] = "." THEN SubSeq(z, 1, Len(z) - 1) ELSE z
    ELSE value

format_eth_value(value) ==
    IF U256_is_zero(value)
    THEN <<"0", " ETH">>
    ELSE LET eth == trim_decimal(format_units_ether(value))
         IN IF eth = <<>> THEN <<"0", " ETH">> ELSE eth \o <<" ETH">>

(***************************************************************************)
(* AddressTransactionRow::from_transaction.                                *)
(***************************************************************************)
TransactionDirection == {"Incoming", "Outgoing", "SelfTransfer", "Interaction"}

\* A faulty classification: the sender test shadows the self-transfer case.
direction_sender_first(is_sender, is_recipient) ==
    IF is_sender THEN "Outgoing"
    ELSE IF is_recipient THEN "Incoming"
    ELSE "Interaction"

classify_direction(is_sender, is_recipient) ==
    IF is_sender /\ is_recipient THEN "SelfTransfer"
    ELSE IF is_sender THEN "Outgoing"
    ELSE IF is_recipient THEN "Incoming"
    ELSE "Interaction"

\* A faulty counterparty: a received transaction shows its recipient.
counterparty_of_recipient(is_sender, is_recipient, tx) ==
    IF is_sender /\ is_recipient THEN <<"Self">>
    ELSE IF IsSome(tx.to) THEN short_hex(Unwrap(tx.to))
    ELSE IF is_sender THEN <<"Contract creation">>
    ELSE short_hex(tx.from)

counterparty_of(is_sender, is_recipient, tx) ==
    IF is_sender /\ is_recipient THEN <<"Self">>
    ELSE IF is_sender
         THEN (IF IsSome(tx.to) THEN short_hex(Unwrap(tx.to))
               ELSE <<"Contract creation">>)
    ELSE IF is_recipient THEN short_hex(tx.from)
    ELSE (IF IsSome(tx.to) THEN short_hex(Unwrap(tx.to))
          ELSE short_hex(tx.from))

from_transaction(target_address, tx) ==
    LET row(direction, counterparty, value) ==
           IF counterparty = Panic THEN Unwound
           ELSE [hash |-> tx.hash,
                 from |-> tx.from,
                 to |-> tx.to,
                 value_wei |-> tx.value_wei,
                 block_number |-> IF tx.block_number > 0 THEN Some(tx.block_number)
                                  ELSE None,
                 direction |-> direction,
                 counterparty |-> counterparty,
                 value_display |->
                     IF ~U256_is_zero(tx.value_wei)
                     THEN (CASE direction = "Outgoing" -> <<"-">> \o value
                             [] direction = "Incoming" -> <<"+">> \o value
                             [] OTHER -> value)
                     ELSE value,
                 status |-> IF tx.is_error THEN "Failed" ELSE "Success",
                 calldata |-> tx.input]
        sides(is_sender, is_recipient) ==
           CHOOSE built \in
              {row(classify_direction(is_sender, is_recipient), counterparty, value) :
                  counterparty \in {counterparty_of(is_sender, is_recipient, tx)},
                  value \in {format_eth_value(tx.value_wei)}} : TRUE
    IN CHOOSE built \in
          {sides(is_sender, is_recipient) :
              is_sender \in {eq_ignore_ascii_case(tx.from, target_address)},
              is_recipient \in {IF IsSome(tx.to)
                                THEN eq_ignore_ascii_case(Unwrap(tx.to), target_address)
                                ELSE FALSE}} : TRUE

(***************************************************************************)
(* Byte order of strings (the order in which the store lists its keys) and *)
(* decimal rendering of small integers.                                    *)
(***************************************************************************)
AsciiOrder == <<" ", ".", "0", "1", "2", "3", "4", "5", "6", "7", "8", "9">>
              \o UpperLetters \o LowerLetters

CharCode(c) == CHOOSE i \in 1..Len(AsciiOrder) : AsciiOrder[i] = c

RECURSIVE BytesLess(_, _)
BytesLess(s, t) ==
    IF t = <<>> THEN FALSE
    ELSE IF s = <<>> THEN TRUE
    ELSE IF Head(s) = Head(t) THEN BytesLess(Tail(s), Tail(t))
    ELSE CharCode(Head(s)) < CharCode(Head(t))

RECURSIVE SortedKeys(_)
SortedKeys(keys) ==
    IF keys = {} THEN <<>>
    ELSE LET k == CHOOSE x \in keys : \A y \in keys \ {x} : BytesLess(x, y)
         IN <<k>> \o SortedKeys(keys \ {k})

Digits == <<"0", "1", "2", "3", "4", "5", "6", "7", "8", "9">>

RECURSIVE IntToStr(_)
IntToStr(n) ==
    IF n < 10 THEN <<Digits[n + 1]>>
    ELSE IntToStr(n \div 10) \o <<Digits[(n % 10) + 1]>>

(***************************************************************************)
(* Storage collaborator (storage/repositories.rs): each favorites          *)
(* partition maps an identifier to its record; list() yields the records   *)
(* in key order with the identifier taken from the key.                    *)
(***************************************************************************)
FavoritesRepository_list(partition) ==
    LET keys == SortedKeys(DOMAIN partition)
    IN [i \in 1..Len(keys) |->
           [label |-> partition[keys[i]].label,
            identifier |-> keys[i],
            chain |-> partition[keys[i]].chain]]

FavoritesRepository_upsert(partition, record) ==
    [k \in DOMAIN partition \cup {record.identifier} |->
        IF k = record.identifier THEN record ELSE partition[k]]

FavoritesRepository_remove(partition, identifier) ==
    [k \in DOMAIN partition \ {identifier} |-> partition[k]]

(***************************************************************************)
(* NavigationState (app/mod.rs).                                           *)
(***************************************************************************)
NavigationState_default ==
    [focused_pane |-> "Top",
     modal_return_focus |-> "Top",
     sidebar_tab |-> "Addresses",
     main_view_mode |-> "Address",
     main_view_tab |-> "AddressInfo"]

\* A faulty focus_modal: the return point is overwritten on every call.
focus_modal_always_remember(nav) ==
    [nav EXCEPT !.modal_return_focus = nav.focused_pane, !.focused_pane = "Modal"]

focus_modal(nav) ==
    [nav EXCEPT !.modal_return_focus =
                    IF nav.focused_pane # "Modal" THEN nav.focused_pane ELSE @,
                !.focused_pane = "Modal"]

focus_pane(nav, pane) ==
    IF pane = "Modal"
    THEN focus_modal(nav)
    ELSE [nav EXCEPT !.focused_pane = pane, !.modal_return_focus = pane]

restore_focus_after_modal(nav) ==
    [nav EXCEPT !.focused_pane = nav.modal_return_focus]

\* A faulty focus_next: the cycle passes through the modal layer.
focus_next_through_modal(nav) ==
    focus_pane(nav, CASE nav.focused_pane = "Top" -> "Sidebar"
                      [] nav.focused_pane = "Sidebar" -> "MainView"
                      [] nav.focused_pane = "MainView" -> "BottomBar"
                      [] nav.focused_pane = "BottomBar" -> "Modal"
                      [] OTHER -> "Top")

focus_next(nav) ==
    focus_pane(nav, CASE nav.focused_pane = "Top" -> "Sidebar"
                      [] nav.focused_pane = "Sidebar" -> "MainView"
                      [] nav.focused_pane = "MainView" -> "BottomBar"
                      [] OTHER -> "Top")

focus_previous(nav) ==
    focus_pane(nav, CASE nav.focused_pane = "Top" -> "BottomBar"
                      [] nav.focused_pane = "Sidebar" -> "Top"
                      [] nav.focused_pane = "MainView" -> "Sidebar"
                      [] nav.focused_pane = "BottomBar" -> "MainView"
                      [] OTHER -> nav.modal_return_focus)

next_main_view_tab(nav) ==
    [nav EXCEPT !.main_view_tab = next(nav.main_view_tab, nav.main_view_mode)]

previous_main_view_tab(nav) ==
    [nav EXCEPT !.main_view_tab = previous(nav.main_view_tab, nav.main_view_mode)]

(***************************************************************************)
(* LoadingState and AddressTransactionsViewState.  The start timestamp of  *)
(* a pane is set and cleared together with is_loading and is not read by   *)
(* the orchestration code, so only the flag is kept.                       *)
(***************************************************************************)
\* A faulty default: the MainView pane starts as loading.
LoadingState_main_view_loading == [top |-> FALSE, sidebar |-> FALSE, main_view |-> TRUE]

LoadingState_default == [top |-> FALSE, sidebar |-> FALSE, main_view |-> FALSE]

set_loading(loading, pane, value) ==
    CASE pane = "Top" -> [loading EXCEPT !.top = value]
      [] pane = "Sidebar" -> [loading EXCEPT !.sidebar = value]
      [] pane = "MainView" -> [loading EXCEPT !.main_view = value]
      [] OTHER -> loading

ViewState_clamp(selected_index, len) ==
    IF len = 0 THEN 0
    ELSE IF selected_index >= len THEN len - 1
    ELSE selected_index

AppState_default ==
    [navigation |-> NavigationState_default,
     loading |-> LoadingState_default,
     selected |-> None,
     search_error |-> None,
     secrets |-> [etherscan_api_key |-> None, anvil_rpc_url |-> None],
     favorite_addresses |-> {},
     favorite_transactions |-> {},
     current_address |-> None,
     current_transaction |-> None,
     address_transactions_view |-> [selected_index |-> 0],
     pending_transaction_preview |-> None,
     transaction_preview_cache |-> <<>>]

is_favorite(st, entity) ==
    IF entity.kind = "Address"
    THEN entity.address \in st.favorite_addresses
    ELSE entity.hash \in st.favorite_transactions

(***************************************************************************)
(* Entities, actions and the background tasks of the runtime.              *)
(***************************************************************************)
AddressEntity(label, address, chain) ==
    [kind |-> "Address", label |-> label, address |-> address, chain |-> chain]

TransactionEntity(label, hash, chain) ==
    [kind |-> "Transaction", label |-> label, hash |-> hash, chain |-> chain]

SelectionChanged(entity) == [type |-> "SelectionChanged", entity |-> entity]

PaneAction(type, pane) == [type |-> type, pane |-> pane]

PlainAction(type) == [type |-> type]

\* CommandBus::spawn_async: the task joins the set of running tasks (a bag,
\* since the same task can be spawned twice); it never blocks the caller.
spawn_async(a, task) ==
    [a EXCEPT !.tasks = [t \in DOMAIN a.tasks \cup {task} |->
                            IF t \in DOMAIN a.tasks
                            THEN a.tasks[t] + (IF t = task THEN 1 ELSE 0)
                            ELSE 1]]

TaskCount(bag) ==
    LET RECURSIVE Sum(_)
        Sum(S) == IF S = {} THEN 0
                  ELSE LET t == CHOOSE x \in S : TRUE
                       IN bag[t] + Sum(S \ {t})
    IN Sum(DOMAIN bag)

TaskRemove(bag, task) ==
    [t \in {u \in DOMAIN bag : u # task \/ bag[u] > 1} |->
        IF t = task THEN bag[t] - 1 ELSE bag[t]]

(***************************************************************************)
(* TopBar (ui/top.rs).                                                     *)
(***************************************************************************)
AddressHexLen == 40
HashHexLen == 64

Mainnet == <<"M", "a", "i", "n", "n", "e", "t">>

TopBar_default ==
    [search_active |-> FALSE,
     search_value |-> <<>>,
     pending_search |-> FALSE,
     status |-> None]

strip_prefix_0x(s) ==
    IF Len(s) >= 2 /\ s[1] = "0" /\ s[2] = "x"
    THEN SubSeq(s, 3, Len(s))
    ELSE s

AllHex(s) == \A i \in 1..Len(s) : s[i] \in HexDigits

\* Ok(entity) is [ok |-> TRUE, entity |-> ...], Err(text) is [ok |-> FALSE, error |-> ...].
decode_query(query) ==
    LET lower == Trim(Trim(query))
        prefix_stripped == strip_prefix_0x(lower)
        with_prefix == <<"0", "x">> \o prefix_stripped
    IN IF prefix_stripped = <<>>
       THEN [ok |-> FALSE, error |-> <<"Empty query">>]
       ELSE IF Len(prefix_stripped) = AddressHexLen /\ AllHex(prefix_stripped)
       THEN [ok |-> TRUE,
             entity |-> AddressEntity(<<"Address ">> \o short_hex(with_prefix),
                                      with_prefix, Mainnet)]
       ELSE IF Len(prefix_stripped) = HashHexLen /\ AllHex(prefix_stripped)
       THEN [ok |-> TRUE,
             entity |-> TransactionEntity(<<"Txn ">> \o short_hex(with_prefix),
                                          with_prefix, Mainnet)]
       ELSE [ok |-> FALSE,
             error |-> <<"Input could not be decoded as a valid address or transaction">>]

TopBar_init(tb, settings) ==
    IF IsSome(settings) /\ Unwrap(settings) # <<>>
    THEN [tb EXCEPT !.search_value = Unwrap(settings)]
    ELSE tb

\* TopBar::update.  The result carries the component's action and whether the
\* settings write of SearchCompleted failed (io_ok = FALSE).  Where short_hex
\* panics the application record comes back with panic = TRUE: the main
\* thread unwinds, and what the record holds besides is of no account.
\* The ShowStatus arm of TopBar::update.
TopBar_show_status(a, message) ==
    IF Panics(message)
    THEN [a EXCEPT !.panic = TRUE]
    ELSE [a EXCEPT !.top_bar =
            [a.top_bar EXCEPT !.status = Some(message),
                              !.search_active = FALSE,
                              !.pending_search = FALSE]]

TopBar_update(a, cmd, io_ok) ==
    LET tb == a.top_bar
        done(a2) == [a |-> a2, action |-> None, err |-> FALSE]
    IN CASE cmd.type = "ActivateSearch" ->
              done([a EXCEPT !.top_bar =
                   [tb EXCEPT !.search_active = TRUE,
                              !.pending_search = FALSE,
                              !.status = Some(<<"Type an address or transaction hash">>)]])
         [] cmd.type = "InputChar" ->
              done([a EXCEPT !.top_bar =
                   [tb EXCEPT !.search_active = TRUE,
                              !.search_value = Append(@, cmd.c)]])
         [] cmd.type = "Backspace" ->
              done([a EXCEPT !.top_bar =
                   [tb EXCEPT !.search_value =
                       IF @ = <<>> THEN @ ELSE SubSeq(@, 1, Len(@) - 1)]])
         [] cmd.type = "Submit" ->
              LET query == Trim(tb.search_value)
              IN IF query = <<>>
                 THEN done([a EXCEPT !.top_bar =
                           [tb EXCEPT !.status = Some(<<"Enter a value to search">>)]])
                 ELSE [a |-> [spawn_async(a, [kind |-> "search", query |-> query])
                                EXCEPT !.top_bar =
                                  [tb EXCEPT !.pending_search = TRUE,
                                             !.status = Some(<<"Searching for ">> \o query
                                                             \o <<Ellipsis>>)]],
                       action |-> Some(PaneAction("LoadingStarted", "Top")),
                       err |-> FALSE]
         [] cmd.type = "Cancel" ->
              done([a EXCEPT !.top_bar =
                   [tb EXCEPT !.search_active = FALSE,
                              !.pending_search = FALSE,
                              !.status = Some(<<"Search cancelled">>)]])
         [] cmd.type = "SearchCompleted" ->
              LET a2 == [a EXCEPT !.top_bar =
                           [tb EXCEPT !.pending_search = FALSE,
                                      !.status = Some(
                                          IF cmd.entity.kind = "Address"
                                          THEN <<"Loaded address ">>
                                               \o short_hex(cmd.entity.address)
                                          ELSE <<"Loaded transaction ">>
                                               \o short_hex(cmd.entity.hash)),
                                      !.search_value = cmd.query,
                                      !.search_active = FALSE]]
              IN IF io_ok
                 THEN done([a2 EXCEPT !.storage.settings = Some(cmd.query)])
                 ELSE [a |-> a2, action |-> None, err |-> TRUE]
         [] cmd.type = "SearchFailed" ->
              CHOOSE failed \in
                 {IF short = Panic
                  THEN done([a EXCEPT !.top_bar = [tb EXCEPT !.pending_search = FALSE],
                                      !.panic = TRUE])
                  ELSE done([a EXCEPT !.top_bar =
                            [tb EXCEPT !.pending_search = FALSE,
                                       !.status = Some(<<"Failed to load ">> \o short
                                                       \o <<": ">> \o cmd.error)]]) :
                     short \in {short_hex(cmd.query)}} : TRUE
         [] cmd.type = "ShowStatus" -> done(TopBar_show_status(a, cmd.message))

ShowStatus(message) == [type |-> "ShowStatus", message |-> message]

\* App::show_status: top_bar_command(TopCommand::ShowStatus(message)), which
\* runs the ShowStatus arm of TopBar::update; the arm yields neither an action
\* nor an error, so the dispatch and the error report of top_bar_command are
\* never taken here.
show_status(a, message) ==
    CHOOSE shown \in {TopBar_show_status(a, status) : status \in {message}} : TRUE

(***************************************************************************)
(* Sidebar (ui/sidebar.rs).                                                *)
(***************************************************************************)
Sidebar_default == [addresses |-> <<>>, transactions |-> <<>>, selected_index |-> 0]

Sidebar_len(sb, tab) ==
    IF tab = "Addresses" THEN Len(sb.addresses) ELSE Len(sb.transactions)

\* A faulty clamp: the cursor is reset only when the list is empty.
clamp_selection_empty_only(sb, tab) ==
    IF Sidebar_len(sb, tab) = 0 THEN [sb EXCEPT !.selected_index = 0] ELSE sb

clamp_selection(sb, tab) ==
    LET len == Sidebar_len(sb, tab)
    IN IF len = 0 THEN [sb EXCEPT !.selected_index = 0]
       ELSE IF sb.selected_index >= len THEN [sb EXCEPT !.selected_index = len - 1]
       ELSE sb

set_addresses(sb, items, current_tab) ==
    LET sb2 == [sb EXCEPT !.addresses = items]
    IN IF current_tab = "Addresses" THEN clamp_selection(sb2, "Addresses") ELSE sb2

set_transactions(sb, items, current_tab) ==
    LET sb2 == [sb EXCEPT !.transactions = items]
    IN IF current_tab = "Transactions" THEN clamp_selection(sb2, "Transactions") ELSE sb2

\* Vec::get with a zero-based index.
selected_entity(sb, tab, index) ==
    LET list == IF tab = "Addresses" THEN sb.addresses ELSE sb.transactions
    IN IF index < Len(list) THEN Some(list[index + 1]) ELSE None

active_selection(sb, tab) == selected_entity(sb, tab, sb.selected_index)

\* A faulty AddFavorite: the entry goes to the end of the list.
AddFavorite_push(sb, entity) ==
    IF entity.kind = "Address"
    THEN [sb EXCEPT !.addresses = Append(@, entity)]
    ELSE [sb EXCEPT !.transactions = Append(@, entity)]

\* `self.addresses.insert(0, addr.clone())` / `self.transactions.insert(0, ..)`.
AddFavorite_insert(sb, entity) ==
    IF entity.kind = "Address"
    THEN [sb EXCEPT !.addresses = <<entity>> \o @]
    ELSE [sb EXCEPT !.transactions = <<entity>> \o @]

\* A faulty RemoveFavorite: the sidebar list keeps the entry.
RemoveFavorite_keep_list(sb, entity) == sb

RemoveFavorite_retain(sb, entity) ==
    IF entity.kind = "Address"
    THEN LET Keep(x) == x.address # entity.address
         IN [sb EXCEPT !.addresses = SelectSeq(sb.addresses, Keep)]
    ELSE LET Keep(x) == x.hash # entity.hash
         IN [sb EXCEPT !.transactions = SelectSeq(sb.transactions, Keep)]

Sidebar_contains(sb, entity) ==
    IF entity.kind = "Address"
    THEN \E i \in 1..Len(sb.addresses) : sb.addresses[i].address = entity.address
    ELSE \E i \in 1..Len(sb.transactions) : sb.transactions[i].hash = entity.hash

EntityTab(entity) == IF entity.kind = "Address" THEN "Addresses" ELSE "Transactions"

\* Sidebar::update: the new sidebar, the new sidebar tab of the navigation
\* state and the action it bubbles up.
Sidebar_update(a, cmd) ==
    LET sb == a.sidebar
        tab == a.state.navigation.sidebar_tab
        r == CASE cmd.type = "MoveUp" ->
                    IF sb.selected_index > 0
                    THEN [sb |-> [sb EXCEPT !.selected_index = @ - 1], tab |-> tab, changed |-> TRUE]
                    ELSE [sb |-> sb, tab |-> tab, changed |-> FALSE]
               [] cmd.type = "MoveDown" ->
                    LET len == Sidebar_len(sb, tab)
                    IN IF len > 0
                       THEN [sb |-> [sb EXCEPT !.selected_index = Min(@ + 1, len - 1)],
                             tab |-> tab, changed |-> TRUE]
                       ELSE [sb |-> sb, tab |-> tab, changed |-> FALSE]
               [] cmd.type = "NextTab" ->
                    [sb |-> clamp_selection([sb EXCEPT !.selected_index = 0], SidebarTab_next(tab)),
                     tab |-> SidebarTab_next(tab), changed |-> TRUE]
               [] cmd.type = "PreviousTab" ->
                    [sb |-> clamp_selection([sb EXCEPT !.selected_index = 0], SidebarTab_previous(tab)),
                     tab |-> SidebarTab_previous(tab), changed |-> TRUE]
               [] cmd.type = "SelectIndex" ->
                    LET len == Sidebar_len(sb, tab)
                    IN IF len > 0
                       THEN [sb |-> [sb EXCEPT !.selected_index = Min(cmd.index, len - 1)],
                             tab |-> tab, changed |-> TRUE]
                       ELSE [sb |-> sb, tab |-> tab, changed |-> FALSE]
               [] cmd.type = "SwitchTab" ->
                    [sb |-> clamp_selection([sb EXCEPT !.selected_index = 0], cmd.tab),
                     tab |-> cmd.tab, changed |-> TRUE]
               [] cmd.type = "AddFavorite" ->
                    IF ~Sidebar_contains(sb, cmd.entity)
                    THEN LET sb2 == AddFavorite_insert(sb, cmd.entity)
                             hit == tab = EntityTab(cmd.entity)
                         IN [sb |-> clamp_selection(
                                      IF hit THEN [sb2 EXCEPT !.selected_index = 0] ELSE sb2, tab),
                             tab |-> tab, changed |-> hit]
                    ELSE [sb |-> clamp_selection(sb, tab), tab |-> tab, changed |-> FALSE]
               [] cmd.type = "RemoveFavorite" ->
                    IF Sidebar_contains(sb, cmd.entity)
                    THEN [sb |-> clamp_selection(RemoveFavorite_retain(sb, cmd.entity), tab),
                          tab |-> tab, changed |-> tab = EntityTab(cmd.entity)]
                    ELSE [sb |-> clamp_selection(sb, tab), tab |-> tab, changed |-> FALSE]
               [] OTHER -> [sb |-> sb, tab |-> tab, changed |-> FALSE]
        picked == selected_entity(r.sb, r.tab, r.sb.selected_index)
    IN [a |-> [a EXCEPT !.sidebar = r.sb, !.state.navigation.sidebar_tab = r.tab],
        action |-> IF r.changed /\ IsSome(picked)
                   THEN Some(SelectionChanged(Unwrap(picked)))
                   ELSE None]

(***************************************************************************)
(* MainView (ui/main_view.rs).                                             *)
(***************************************************************************)
\* A faulty guard: the row commands act while the pane is loading.
MainView_table_while_loading(st) ==
    IF /\ st.navigation.main_view_mode = "Address"
       /\ normalize(st.navigation.main_view_tab, "Address") = "AddressTransactions"
       /\ IsSome(st.current_address)
    THEN Unwrap(st.current_address).transactions_table
    ELSE None

\* The transactions table the three row commands act on, if the guards of
\* the command let it through.
MainView_table(st) ==
    IF /\ st.navigation.main_view_mode = "Address"
       /\ ~st.loading.main_view
       /\ normalize(st.navigation.main_view_tab, "Address") = "AddressTransactions"
       /\ IsSome(st.current_address)
    THEN Unwrap(st.current_address).transactions_table
    ELSE None

\* A faulty SetMode: the tab is not re-normalized.
set_mode_keep_tab(nav, mode) == [nav EXCEPT !.main_view_mode = mode]

\* MainViewCommand::SetMode: the tab is re-normalized for the new mode.
set_mode(nav, mode) ==
    [nav EXCEPT !.main_view_mode = mode,
                !.main_view_tab = normalize(nav.main_view_tab, mode)]

MainView_update(a, cmd) ==
    LET st == a.state
        nav == st.navigation
        table == MainView_table(st)
        same == [a |-> a, action |-> None]
        clamped == ViewState_clamp(st.address_transactions_view.selected_index,
                                   Len(Unwrap(table).rows))
    IN CASE cmd.type = "SetMode" ->
              [a |-> [a EXCEPT !.state.navigation = set_mode(nav, cmd.mode)],
               action |-> None]
         [] cmd.type = "SwitchTab" ->
              [a |-> [a EXCEPT !.state.navigation.main_view_tab =
                        normalize(cmd.tab, nav.main_view_mode)],
               action |-> None]
         [] cmd.type = "NextTab" ->
              [a |-> [a EXCEPT !.state.navigation = next_main_view_tab(nav)], action |-> None]
         [] cmd.type = "PreviousTab" ->
              [a |-> [a EXCEPT !.state.navigation = previous_main_view_tab(nav)], action |-> None]
         [] cmd.type = "MoveSelectionUp" ->
              IF IsSome(table)
              THEN [a |-> [a EXCEPT !.state.address_transactions_view.selected_index =
                             IF Unwrap(table).rows # <<>> /\ clamped > 0
                             THEN clamped - 1 ELSE clamped],
                    action |-> None]
              ELSE same
         [] cmd.type = "MoveSelectionDown" ->
              IF IsSome(table)
              THEN [a |-> [a EXCEPT !.state.address_transactions_view.selected_index =
                             IF Unwrap(table).rows # <<>>
                                /\ clamped < Len(Unwrap(table).rows) - 1
                             THEN clamped + 1 ELSE clamped],
                    action |-> None]
              ELSE same
         [] cmd.type = "ActivateSelection" ->
              IF IsSome(table) /\ IsSome(st.selected) /\ Unwrap(st.selected).kind = "Address"
              THEN LET rows == Unwrap(table).rows
                       a2 == [a EXCEPT !.state.address_transactions_view.selected_index = clamped]
                       activated(label) ==
                           IF label = Panic
                           THEN [a |-> [a2 EXCEPT !.panic = TRUE], action |-> None]
                           ELSE [a |-> [a2 EXCEPT !.state.pending_transaction_preview =
                                          Some(rows[clamped + 1])],
                                 action |-> Some(SelectionChanged(
                                     TransactionEntity(label, rows[clamped + 1].hash,
                                                       Unwrap(st.selected).chain)))]
                   IN IF rows # <<>>
                      THEN CHOOSE result \in
                              {activated(label) :
                                  label \in {short_hex(rows[clamped + 1].hash)}} : TRUE
                      ELSE [a |-> a2, action |-> None]
              ELSE same
         [] OTHER -> same

(***************************************************************************)
(* Hydration tasks (App::hydrate_address, build_address_view and the task  *)
(* body of start_transaction_hydration).  The outcomes of the network      *)
(* exchanges are parameters:                                               *)
(*   ov  - account overview: [kind |-> "ok", data |-> overview],           *)
(*         [kind |-> "error"] or [kind |-> "timeout"];                     *)
(*   fb  - fallback latest-block query: [kind |-> "ok", block |-> n],      *)
(*         [kind |-> "error"] or [kind |-> "timeout"];                     *)
(*   txr - transaction-history exchange: [kind |-> "ok", entries |-> seq], *)
(*         [kind |-> "http"], [kind |-> "parse"] or [kind |-> "api"].      *)
(***************************************************************************)
TRANSACTION_FETCH_LIMIT == 25

\* The time allowed to fetch_account_overview and to fetch_latest_block.
OverviewTimeoutSecs == 10
FallbackTimeoutSecs == 4

Lowercase(s) == [i \in 1..Len(s) |-> to_ascii_lowercase(s[i])]

Chars_mainnet == <<"m", "a", "i", "n", "n", "e", "t">>
Chars_ethereum == <<"e", "t", "h", "e", "r", "e", "u", "m">>
Chars_arbitrum == <<"a", "r", "b", "i", "t", "r", "u", "m">>
Chars_base == <<"b", "a", "s", "e">>
Chars_sepolia == <<"s", "e", "p", "o", "l", "i", "a">>
Chars_one == <<" ", "o", "n", "e">>

\* resolve_chain: the explorer label of the chain, or None.
resolve_chain(chain) ==
    \* `chain.trim().to_lowercase()`, matched against the known names.
    LET known(normalized) ==
       CASE normalized \in {Chars_mainnet, Chars_ethereum,
                             Chars_ethereum \o <<" ">> \o Chars_mainnet} ->
              Some(<<"Etherscan">>)
         [] normalized \in {Chars_arbitrum, Chars_arbitrum \o Chars_one} ->
              Some(<<"Arbiscan">>)
         [] normalized \in {Chars_base, Chars_base \o <<" ">> \o Chars_mainnet} ->
              Some(<<"Basescan">>)
         [] normalized \in {Chars_sepolia, Chars_ethereum \o <<" ">> \o Chars_sepolia} ->
              Some(<<"Etherscan (Sepolia)">>)
         [] OTHER -> None
    IN CHOOSE explorer \in {known(normalized) : normalized \in {Lowercase(Trim(chain))}} : TRUE

\* fetch_address_transactions up to the HTTP exchange, whose outcome is txr.
fetch_address_transactions(address, api_key, txr) ==
    IF ~IsSome(api_key) \/ Trim(Unwrap(api_key)) = <<>>
    THEN [kind |-> "MissingApiKey"]
    ELSE CHOOSE result \in
            {IF ~IsSome(explorer)
             THEN [kind |-> "UnsupportedChain", chain |-> address.chain]
             ELSE IF txr.kind = "ok"
             THEN [kind |-> "ok", entries |-> txr.entries,
                   source |-> [label |-> Unwrap(explorer), api_version |-> <<"v2">>]]
             ELSE [kind |-> txr.kind] :
                explorer \in {resolve_chain(address.chain)}} : TRUE

\* Address::from_str: 40 hex digits with an optional 0x prefix.
parse_address_ok(s) ==
    LET digits == strip_prefix_0x(s)
    IN Len(digits) = AddressHexLen /\ AllHex(digits)

build_address_view(addr, overview, note, rpc_endpoint, block_note) ==
    LET l1 == IF IsSome(rpc_endpoint)
              THEN <<(<<"RPC endpoint: ">> \o Unwrap(rpc_endpoint))>> ELSE <<>>
        l2 == IF IsSome(overview)
              THEN << <<"Latest block: ">> \o IntToStr(Unwrap(overview).latest_block),
                      <<"Balance: ">> \o format_units_ether(Unwrap(overview).balance_wei)
                          \o <<" ETH (">> \o Unwrap(overview).balance_wei \o <<" wei)">>,
                      <<"Transaction count (nonce): ">>
                          \o IntToStr(Unwrap(overview).transaction_count),
                      <<"Account type: ">>
                          \o (IF Unwrap(overview).is_contract
                              THEN <<"Contract">> ELSE <<"Externally Owned Account">>) >>
              ELSE <<>>
        l3 == IF IsSome(block_note) THEN <<Unwrap(block_note)>> ELSE <<>>
        l4 == IF IsSome(note) THEN <<Unwrap(note)>> ELSE <<>>
        lines == {l1 \o l2 \o l3 \o l4}
    IN [identifier |-> addr.address,
        info |-> CHOOSE shown \in {IF info = <<>> THEN << <<"No account data available.">> >>
                                   ELSE info : info \in lines} : TRUE,
        transactions |-> << <<"Transactions will appear once data is fetched.">> >>,
        transactions_table |-> None,
        internal |-> << <<"Internal transactions not yet implemented.">> >>,
        balances |-> << <<"Balance inspection not yet implemented.">> >>,
        permissions |-> << <<"Permission analysis not yet implemented.">> >>,
        overview |-> overview]

\* A faulty empty history: no line at all.
no_transactions_note_missing(source) == <<>>

\* A faulty overview failure: the latest block is not asked for.
fallback_block_note_never(fetched, ov, fb) == None

\* The fallback of hydrate_address: when the overview request was made and
\* failed or timed out, fetch_latest_block is tried and its block noted.
fallback_block_note(fetched, ov, fb) ==
    IF fetched /\ ov.kind # "ok" /\ fb.kind = "ok"
    THEN Some(<<"Latest block observed: ">> \o IntToStr(fb.block))
    ELSE None

\* A faulty note for an empty history: the one of a failed request.
no_transactions_note_as_failure(source) ==
    << <<"Failed to load transactions: ">> \o <<"api">> >>

\* The note hydrate_address writes when the history has no rows.
no_transactions_note(source) ==
    << <<"No transactions available via ">> \o source.label \o <<" (">>
       \o source.api_version \o <<").">> >>

hydrate_address(addr, secrets, env_rpc, ov, fb, txr) ==
    LET endpoint == IF IsSome(secrets.anvil_rpc_url) THEN secrets.anvil_rpc_url
                    ELSE IF IsSome(env_rpc) /\ Trim(Unwrap(env_rpc)) # <<>> THEN env_rpc
                    ELSE None
        \* The view after the overview and the fallback request.
        overview_view(rpc_url, parsed) ==
            LET fetched == IsSome(rpc_url) /\ parsed
                overview == IF fetched /\ ov.kind = "ok" THEN Some(ov.data) ELSE None
                note == IF ~IsSome(rpc_url)
                        THEN Some(<<"Configure an Anvil RPC endpoint to load account data.">>)
                        ELSE IF ~parsed
                        THEN Some(<<"Address is not a valid hexadecimal string">>)
                        ELSE IF ov.kind = "error"
                        THEN Some(<<"Failed to load account data: ", "error">>)
                        ELSE IF ov.kind = "timeout"
                        THEN Some(<<"Account query to ">> \o Unwrap(rpc_url)
                                  \o <<" timed out">>)
                        ELSE None
                block_note == fallback_block_note(fetched, ov, fb)
            IN build_address_view(addr, overview, note, rpc_url, block_note)
        \* `Ok((transactions, source))`, `rows` built by from_transaction.
        with_rows(hydrated, source, rows) ==
            IF \E i \in 1..Len(rows) : rows[i] = Unwound
            THEN Unwound
            ELSE IF rows = <<>>
            THEN [hydrated EXCEPT
                    !.transactions = no_transactions_note(source),
                    !.transactions_table = None]
            ELSE [hydrated EXCEPT
                    !.transactions = << <<"Latest ">> \o IntToStr(Len(rows))
                                        \o <<" transaction(s) via ">> \o source.label
                                        \o <<" (">> \o source.api_version
                                        \o <<") ", Bullet, " newest first (max ">>
                                        \o IntToStr(TRANSACTION_FETCH_LIMIT) \o <<").">> >>,
                    !.transactions_table =
                        Some([source_label |-> source.label,
                              source_api_version |-> source.api_version,
                              limit |-> TRANSACTION_FETCH_LIMIT,
                              rows |-> rows])]
        \* `match Self::fetch_address_transactions(..).await`.
        with_transactions(hydrated, transactions_result) ==
            CASE transactions_result.kind = "ok" ->
                   CHOOSE data \in
                      {with_rows(hydrated, transactions_result.source, rows) :
                          rows \in {[i \in 1..Len(transactions_result.entries) |->
                                       from_transaction(hydrated.identifier,
                                                        transactions_result.entries[i])]}} :
                      TRUE
              [] transactions_result.kind = "MissingApiKey" ->
                   [hydrated EXCEPT
                      !.transactions =
                          << <<"Add an Etherscan API key to load recent transactions.">>,
                             <<"Open Settings ", RightArrow,
                               " Secrets and enter ETHERSCAN_API_KEY.">> >>,
                      !.transactions_table = None]
              [] transactions_result.kind = "UnsupportedChain" ->
                   [hydrated EXCEPT
                      !.transactions =
                          << <<"No Etherscan-compatible explorer configured for chain ">>
                             \o transactions_result.chain \o <<".">> >>,
                      !.transactions_table = None]
              [] OTHER ->
                   [hydrated EXCEPT
                      !.transactions = << <<"Failed to load transactions: ">>
                                          \o <<transactions_result.kind>> >>,
                      !.transactions_table = None]
        views == {overview_view(rpc_url, parsed) :
                     rpc_url \in {endpoint}, parsed \in {parse_address_ok(addr.address)}}
    IN CHOOSE data \in
          {with_transactions(hydrated, transactions_result) :
              hydrated \in views,
              transactions_result \in
                 {fetch_address_transactions(addr, secrets.etherscan_api_key, txr)}} : TRUE

hydrate_transaction(tx_ref, preview) ==
    LET row == Unwrap(preview)
        calldata == IF IsSome(preview) THEN row.calldata ELSE None
        calldata_message == IF IsSome(calldata) THEN Unwrap(calldata)
                            ELSE <<"Calldata unavailable (connect debugger or provider)">>
        head == << <<"Hash: ">> \o short_hex(tx_ref.hash) >>
        body == IF IsSome(preview)
                THEN << <<"Status: ">> \o <<(IF row.status = "Success" THEN "OK" ELSE "Failed")>>,
                        <<"From: ">> \o short_hex(row.from),
                        <<"To: ">> \o (IF IsSome(row.to) THEN short_hex(Unwrap(row.to))
                                       ELSE <<"Contract creation">>),
                        <<"Value: ">> \o row.value_display >>
                     \o (IF IsSome(row.block_number)
                         THEN << <<"Block: ">> \o IntToStr(Unwrap(row.block_number)) >>
                         ELSE <<>>)
                ELSE << <<"Status: Not cached">>, <<"From: Not cached">>,
                        <<"To: Not cached">>, <<"Value: Not cached">> >>
        hydrated(summary) ==
            IF \E i \in 1..Len(summary) : Panics(summary[i])
            THEN Unwound
            ELSE [identifier |-> tx_ref.hash,
                  summary |-> summary,
                  debug |-> << <<"Trace data unavailable. Configure Alloy debug adapter.">> >>,
                  storage_diff |-> << <<"Storage diff requires debugger export (", Backtick,
                                        "e", Backtick, ").">> >>,
                  from |-> IF IsSome(preview) THEN Some(row.from) ELSE None,
                  to |-> IF IsSome(preview) THEN row.to ELSE None,
                  value_formatted |-> IF IsSome(preview) THEN Some(row.value_display) ELSE None,
                  calldata |-> calldata,
                  block_number |-> IF IsSome(preview) THEN row.block_number ELSE None,
                  status |-> IF IsSome(preview) THEN Some(row.status) ELSE None]
    IN CHOOSE data \in {hydrated(summary) :
                           summary \in {head \o body
                                        \o << <<"Calldata: ">> \o calldata_message >>}} : TRUE

(***************************************************************************)
(* App (app/mod.rs).  The operators below take and return the application  *)
(* object a = [running, err, state, storage, top_bar, sidebar,             *)
(* secrets_modal, tasks]; err is set when an AppResult error is returned   *)
(* through the `?` operators to the caller.                                *)
(***************************************************************************)
MapPut(m, k, v) == [x \in DOMAIN m \cup {k} |-> IF x = k THEN v ELSE m[x]]

MapGet(m, k) == IF k \in DOMAIN m THEN Some(m[k]) ELSE None

\* A faulty start of an address hydration: the previous address data stays.
start_address_hydration_keep_current(a, addr) ==
    LET a1 == [a EXCEPT !.state.loading = set_loading(@, "MainView", TRUE)]
        a2 == show_status(a1, <<"Fetching latest activity for ">> \o short_hex(addr.address))
    IN spawn_async(a2, [kind |-> "hydrate_address", addr |-> addr,
                        secrets |-> a2.state.secrets])

start_address_hydration(a, addr) ==
    LET a1 == [a EXCEPT !.state.current_address = None,
                        !.state.loading = set_loading(@, "MainView", TRUE)]
        a2 == show_status(a1, <<"Fetching latest activity for ">> \o short_hex(addr.address))
    IN spawn_async(a2, [kind |-> "hydrate_address", addr |-> addr,
                        secrets |-> a2.state.secrets])

\* A faulty start of a transaction hydration: the pane is not marked loading.
start_transaction_hydration_not_loading(a, tx, preview) ==
    LET a1 == [a EXCEPT !.state.current_transaction = None]
        a2 == show_status(a1, <<"Loading transaction ">> \o short_hex(tx.hash))
        a3 == IF IsSome(preview)
              THEN [a2 EXCEPT !.state.transaction_preview_cache =
                       MapPut(@, Unwrap(preview).hash, Unwrap(preview))]
              ELSE a2
    IN spawn_async(a3, [kind |-> "hydrate_transaction", tx |-> tx, preview |-> preview])

start_transaction_hydration(a, tx, preview) ==
    LET a1 == [a EXCEPT !.state.current_transaction = None,
                        !.state.loading = set_loading(@, "MainView", TRUE)]
        a2 == show_status(a1, <<"Loading transaction ">> \o short_hex(tx.hash))
        a3 == IF IsSome(preview)
              THEN [a2 EXCEPT !.state.transaction_preview_cache =
                       MapPut(@, Unwrap(preview).hash, Unwrap(preview))]
              ELSE a2
    IN spawn_async(a3, [kind |-> "hydrate_transaction", tx |-> tx, preview |-> preview])

\* A faulty start of a hydration: the preview rows are not looked at.
start_hydration_without_preview(a, entity) ==
    IF entity.kind = "Address"
    THEN start_address_hydration(a, entity)
    ELSE start_transaction_hydration(
             [a EXCEPT !.state.pending_transaction_preview = None], entity, None)

\* A faulty start of a hydration: no task is spawned for a transaction.
start_hydration_addresses_only(a, entity) ==
    IF entity.kind = "Address"
    THEN start_address_hydration(a, entity)
    ELSE [a EXCEPT !.state.pending_transaction_preview = None,
                   !.state.current_transaction = None,
                   !.state.loading = set_loading(@, "MainView", TRUE)]

start_hydration(a, entity) ==
    IF entity.kind = "Address"
    THEN start_address_hydration(a, entity)
    ELSE LET taken == a.state.pending_transaction_preview
             preview == IF IsSome(taken) THEN taken
                        ELSE MapGet(a.state.transaction_preview_cache, entity.hash)
         IN start_transaction_hydration(
                [a EXCEPT !.state.pending_transaction_preview = None], entity, preview)

\* A faulty close_modal: the focus stays on the modal layer.
close_modal_keep_focus(a) ==
    [a EXCEPT !.secrets_modal = None]

close_modal(a) ==
    [a EXCEPT !.secrets_modal = None,
              !.state.navigation = restore_focus_after_modal(@)]

dispatch(a, action) ==
    LET b == IF action.type \in {"SelectionChanged", "Quit"}
             THEN [a EXCEPT !.dispatched = Append(@, action)] ELSE a
    IN
    CASE action.type = "Quit" -> [b EXCEPT !.running = FALSE]
      [] action.type = "FocusPane" ->
           [b EXCEPT !.state.navigation = focus_pane(@, action.pane)]
      [] action.type = "FocusNextPane" ->
           [b EXCEPT !.state.navigation = focus_next(@)]
      [] action.type = "FocusPreviousPane" ->
           [b EXCEPT !.state.navigation = focus_previous(@)]
      [] action.type = "SelectionChanged" ->
           LET entity == action.entity
               a1 == [b EXCEPT !.state.selected = Some(entity),
                               !.state.search_error = None]
               a2 == IF entity.kind = "Address"
                     THEN [a1 EXCEPT !.state.address_transactions_view.selected_index = 0,
                                     !.state.navigation.main_view_mode = "Address",
                                     !.state.navigation.main_view_tab = "AddressInfo"]
                     ELSE [a1 EXCEPT !.state.navigation.main_view_mode = "Transaction",
                                     !.state.navigation.main_view_tab = "TransactionSummary"]
           IN start_hydration(a2, entity)
      [] action.type = "LoadingStarted" ->
           [b EXCEPT !.state.loading = set_loading(@, action.pane, TRUE)]
      [] action.type = "LoadingFinished" ->
           [b EXCEPT !.state.loading = set_loading(@, action.pane, FALSE)]
      [] action.type = "CloseModal" -> close_modal(b)
      [] action.type = "SecretsSaved" ->
           show_status(close_modal(b), <<"Secrets updated">>)

\* `component.update(..)?` followed by the dispatch of the returned action.
Lift(r) ==
    IF "err" \in DOMAIN r /\ r.err
    THEN [r.a EXCEPT !.err = TRUE]
    ELSE IF IsSome(r.action) THEN dispatch(r.a, Unwrap(r.action))
    ELSE r.a

sidebar_command(a, cmd) == Lift(Sidebar_update(a, cmd))

main_view_command(a, cmd) == Lift(MainView_update(a, cmd))

top_bar_command(a, cmd, io_ok) == Lift(TopBar_update(a, cmd, io_ok))

handle_tab_navigation(a, direction) ==
    CASE a.state.navigation.focused_pane = "Sidebar" ->
           sidebar_command(a, [type |-> IF direction = "Next" THEN "NextTab" ELSE "PreviousTab"])
      [] a.state.navigation.focused_pane = "MainView" ->
           main_view_command(a, [type |-> IF direction = "Next" THEN "NextTab" ELSE "PreviousTab"])
      [] OTHER -> a

handle_movement(a, movement) ==
    CASE a.state.navigation.focused_pane = "Sidebar" /\ movement = "Up" ->
           sidebar_command(a, [type |-> "MoveUp"])
      [] a.state.navigation.focused_pane = "Sidebar" /\ movement = "Down" ->
           sidebar_command(a, [type |-> "MoveDown"])
      [] a.state.navigation.focused_pane = "MainView" /\ movement = "Up" ->
           main_view_command(a, [type |-> "MoveSelectionUp"])
      [] a.state.navigation.focused_pane = "MainView" /\ movement = "Down" ->
           main_view_command(a, [type |-> "MoveSelectionDown"])
      [] OTHER -> a

(***************************************************************************)
(* App::toggle_favorite.  store_ok is the outcome of the one persisted-    *)
(* store operation (remove or upsert) the toggle performs.                 *)
(***************************************************************************)
EntityKey(entity) == IF entity.kind = "Address" THEN entity.address ELSE entity.hash

forget_favorite(a, entity) ==
    IF entity.kind = "Address"
    THEN [a EXCEPT !.state.favorite_addresses = @ \ {entity.address}]
    ELSE [a EXCEPT !.state.favorite_transactions = @ \ {entity.hash}]

remember_favorite(a, entity) ==
    IF entity.kind = "Address"
    THEN [a EXCEPT !.state.favorite_addresses = @ \cup {entity.address}]
    ELSE [a EXCEPT !.state.favorite_transactions = @ \cup {entity.hash}]

\* A faulty toggle: the membership set is updated before the store answers.
store_failed_after_memory(a, entity) ==
    [(IF is_favorite(a.state, entity)
      THEN forget_favorite(a, entity)
      ELSE remember_favorite(a, entity)) EXCEPT !.err = TRUE]

\* `self.storage.favorites_*().remove(&key)?` / `.upsert(&record)?` failing:
\* the error is returned before anything else is touched.
store_failed(a, entity) == [a EXCEPT !.err = TRUE]

store_remove(a, entity) ==
    IF entity.kind = "Address"
    THEN [a EXCEPT !.storage.favorites_addresses =
             FavoritesRepository_remove(@, entity.address)]
    ELSE [a EXCEPT !.storage.favorites_transactions =
             FavoritesRepository_remove(@, entity.hash)]

store_upsert(a, entity) ==
    LET record == [label |-> Some(entity.label),
                   identifier |-> EntityKey(entity),
                   chain |-> entity.chain]
    IN IF entity.kind = "Address"
       THEN [a EXCEPT !.storage.favorites_addresses = FavoritesRepository_upsert(@, record)]
       ELSE [a EXCEPT !.storage.favorites_transactions = FavoritesRepository_upsert(@, record)]

toggle_favorite(a, store_ok) ==
    IF ~IsSome(a.state.selected)
    THEN a
    ELSE LET selected == Unwrap(a.state.selected)
         IN IF is_favorite(a.state, selected)
            THEN IF ~store_ok
                 THEN store_failed(a, selected)
                 ELSE top_bar_command(
                          sidebar_command(forget_favorite(store_remove(a, selected), selected),
                                          [type |-> "RemoveFavorite", entity |-> selected]),
                          ShowStatus(<<"Removed ">> \o short_hex(EntityKey(selected))
                                     \o <<" from favorites">>),
                          TRUE)
            ELSE IF ~store_ok
                 THEN store_failed(a, selected)
                 ELSE top_bar_command(
                          sidebar_command(remember_favorite(store_upsert(a, selected), selected),
                                          [type |-> "AddFavorite", entity |-> selected]),
                          ShowStatus(<<"Favorited ">> \o short_hex(EntityKey(selected))),
                          TRUE)

(***************************************************************************)
(* SecretsModal (ui/modal/secrets.rs).  fail_at numbers the secrets-store  *)
(* write of save() that fails (0: none).                                   *)
(***************************************************************************)
SecretsModal_new(st) ==
    [etherscan_value |-> IF IsSome(st.secrets.etherscan_api_key)
                         THEN Unwrap(st.secrets.etherscan_api_key) ELSE <<>>,
     anvil_value |-> IF IsSome(st.secrets.anvil_rpc_url)
                     THEN Unwrap(st.secrets.anvil_rpc_url) ELSE <<>>,
     focused_field |-> "Etherscan",
     message |-> None]

SpecialKeys == {"Esc", "Enter", "Tab", "Backspace", "Up", "Down"}

IsCharKey(key) == key.code \notin SpecialKeys

command_from_key(key) ==
    CASE key.code = "Esc" -> Some([type |-> "Cancel"])
      [] key.mods = "NONE" /\ key.code \in {"Tab", "Down"} -> Some([type |-> "FocusNextField"])
      [] (key.mods = "SHIFT" /\ key.code = "Tab") \/ (key.mods = "NONE" /\ key.code = "Up") ->
           Some([type |-> "FocusPreviousField"])
      [] key.code = "Enter" -> Some([type |-> "Submit"])
      [] key.code = "Backspace" -> Some([type |-> "Backspace"])
      [] key.mods = "CONTROL" /\ key.code = "u" -> Some([type |-> "ClearField"])
      [] IsCharKey(key) /\ key.mods # "CONTROL" -> Some([type |-> "InputChar", c |-> key.code])
      [] OTHER -> None

cycle_field(field) == IF field = "Etherscan" THEN "Anvil" ELSE "Etherscan"

selected_value(modal) ==
    IF modal.focused_field = "Etherscan" THEN modal.etherscan_value ELSE modal.anvil_value

\* An edit of the focused field: the message is cleared and the value replaced.
EditField(modal, value) ==
    IF modal.focused_field = "Etherscan"
    THEN [modal EXCEPT !.message = None, !.etherscan_value = value]
    ELSE [modal EXCEPT !.message = None, !.anvil_value = value]

SecretsModal_save(a, fail_at) ==
    LET modal == Unwrap(a.secrets_modal)
        etherscan == Trim(modal.etherscan_value)
        anvil == Trim(modal.anvil_value)
        with_message(m) == [a EXCEPT !.secrets_modal = Some([modal EXCEPT !.message = Some(m)])]
    IN IF etherscan = <<>>
       THEN [a |-> with_message(<<"Etherscan API key is required">>), action |-> None, err |-> FALSE]
       ELSE IF anvil = <<>>
       THEN [a |-> with_message(<<"Anvil RPC URL is required">>), action |-> None, err |-> FALSE]
       ELSE IF fail_at = 1
       THEN [a |-> a, action |-> None, err |-> TRUE]
       ELSE IF fail_at = 2
       THEN [a |-> [a EXCEPT !.storage.secrets.etherscan_api_key = Some(etherscan)],
             action |-> None, err |-> TRUE]
       ELSE [a |-> [with_message(<<"Configuration saved">>) EXCEPT
                      !.storage.secrets = [etherscan_api_key |-> Some(etherscan),
                                           anvil_rpc_url |-> Some(anvil)],
                      !.state.secrets = [etherscan_api_key |-> Some(etherscan),
                                         anvil_rpc_url |-> Some(anvil)]],
             action |-> Some(PlainAction("SecretsSaved")), err |-> FALSE]

SecretsModal_update(a, cmd, fail_at) ==
    LET modal == Unwrap(a.secrets_modal)
        edited(m) == [a |-> [a EXCEPT !.secrets_modal = Some(m)], action |-> None, err |-> FALSE]
        v == selected_value(modal)
        Keep(ch) == ch \notin {"\r", "\n"}
    IN CASE cmd.type \in {"FocusNextField", "FocusPreviousField"} ->
              edited([modal EXCEPT !.message = None, !.focused_field = cycle_field(@)])
         [] cmd.type = "InputChar" -> edited(EditField(modal, Append(v, cmd.c)))
         [] cmd.type = "InsertText" -> edited(EditField(modal, v \o SelectSeq(cmd.text, Keep)))
         [] cmd.type = "Backspace" -> edited(EditField(modal, IF v = <<>> THEN v ELSE SubSeq(v, 1, Len(v) - 1)))
         [] cmd.type = "ClearField" -> edited(EditField(modal, <<>>))
         [] cmd.type = "Submit" -> SecretsModal_save(a, fail_at)
         [] cmd.type = "Cancel" ->
              [a |-> a, action |-> Some(PlainAction("CloseModal")), err |-> FALSE]

handle_modal_key(a, key, fail_at) ==
    IF key.mods = "CONTROL" /\ key.code \in {"c", "C"}
    THEN dispatch(a, PlainAction("Quit"))
    ELSE IF IsSome(command_from_key(key)) /\ IsSome(a.secrets_modal)
    THEN Lift(SecretsModal_update(a, Unwrap(command_from_key(key)), fail_at))
    ELSE a

handle_modal_paste(a, content) ==
    IF IsSome(a.secrets_modal)
    THEN Lift(SecretsModal_update(a, [type |-> "InsertText", text |-> content], 0))
    ELSE a

\* Every character of the paste except CR and LF goes through
\* TopCommand::InputChar, which activates the search and appends the
\* character; the loop is written here as the composition of those updates.
handle_search_paste(a, content) ==
    LET Keep(ch) == ch \notin {"\r", "\n"}
        typed == SelectSeq(content, Keep)
    IN IF typed = <<>> THEN a
       ELSE [a EXCEPT !.top_bar.search_active = TRUE,
                      !.top_bar.search_value = @ \o typed]

(***************************************************************************)
(* Key and paste handlers.  A key is [mods, code] with mods one of NONE,   *)
(* SHIFT, CONTROL and code a special key name or a character; io is the    *)
(* outcome of the storage operations the handler performs (0: all succeed, *)
(* k: the k-th fails).                                                     *)
(***************************************************************************)
DigitValue(c) == CHOOSE n \in 0..9 : Digits[n + 1] = c

global_key(a, key, io) ==
    LET focus == a.state.navigation.focused_pane
    IN CASE key.code \in {"Esc", "q"} \/ (key.mods = "CONTROL" /\ key.code \in {"c", "C"}) ->
              dispatch(a, PlainAction("Quit"))
         [] key.mods = "NONE" /\ key.code = "/" ->
              top_bar_command(dispatch(a, PaneAction("FocusPane", "Top")),
                              [type |-> "ActivateSearch"], TRUE)
         [] key.mods = "NONE" /\ key.code = "Tab" -> dispatch(a, PlainAction("FocusNextPane"))
         [] key.mods = "SHIFT" /\ key.code = "Tab" -> dispatch(a, PlainAction("FocusPreviousPane"))
         [] key.mods = "NONE" /\ key.code = "[" -> handle_tab_navigation(a, "Previous")
         [] key.mods = "NONE" /\ key.code = "]" -> handle_tab_navigation(a, "Next")
         [] key.mods = "NONE" /\ key.code = "j" -> handle_movement(a, "Down")
         [] key.mods = "NONE" /\ key.code = "k" -> handle_movement(a, "Up")
         [] key.mods = "NONE" /\ key.code = "h" -> handle_movement(a, "Left")
         [] key.mods = "NONE" /\ key.code = "l" -> handle_movement(a, "Right")
         [] key.mods = "NONE" /\ (\E n \in 1..10 : Digits[n] = key.code) ->
              LET pane == FocusedPane_from_number(DigitValue(key.code))
              IN IF IsSome(pane) THEN dispatch(a, PaneAction("FocusPane", Unwrap(pane))) ELSE a
         [] key.mods = "NONE" /\ key.code = "Enter" ->
              (CASE focus = "MainView" -> main_view_command(a, [type |-> "ActivateSelection"])
                 [] focus = "Sidebar" ->
                      LET entity == active_selection(a.sidebar, a.state.navigation.sidebar_tab)
                          a1 == IF IsSome(entity)
                                THEN dispatch(a, SelectionChanged(Unwrap(entity)))
                                ELSE a
                      IN dispatch(a1, PaneAction("FocusPane", "MainView"))
                 [] OTHER -> a)
         [] /\ focus = "MainView"
            /\ (key.mods = "NONE" /\ key.code = "f") \/ (key.mods = "SHIFT" /\ key.code = "F") ->
              toggle_favorite(a, io = 0)
         [] OTHER -> a

on_key_event(a, key, io) ==
    IF a.state.navigation.focused_pane = "Modal"
    THEN handle_modal_key(a, key, io)
    ELSE IF a.top_bar.search_active /\ key.code = "Esc"
    THEN top_bar_command(a, [type |-> "Cancel"], TRUE)
    ELSE IF a.top_bar.search_active /\ key.code = "Enter"
    THEN top_bar_command(a, [type |-> "Submit"], TRUE)
    ELSE IF a.top_bar.search_active /\ key.code = "Backspace"
    THEN top_bar_command(a, [type |-> "Backspace"], TRUE)
    ELSE IF a.top_bar.search_active /\ IsCharKey(key) /\ key.mods # "CONTROL"
    THEN top_bar_command(a, [type |-> "InputChar", c |-> key.code], TRUE)
    ELSE global_key(a, key, io)

on_paste_event(a, content) ==
    IF a.state.navigation.focused_pane = "Modal"
    THEN handle_modal_paste(a, content)
    ELSE IF a.top_bar.search_active
    THEN handle_search_paste(a, content)
    ELSE a

(***************************************************************************)
(* One iteration of the loop of App::drain_messages: the handling of the   *)
(* message that try_recv returned.  io_ok is the outcome of the settings   *)
(* write of a completed search (its error is dropped by `let _ =`).        *)
(***************************************************************************)
\* str::contains on texts of characters: `word` occurs in `line`, in a row.
str_contains(line, word) ==
    \E i \in 0..(Len(line) - Len(word)) : SubSeq(line, i + 1, i + Len(word)) = word

StatusWords ==
    {Flatten(word) : word \in {<<"Balance">>, <<"Failed">>, <<"Account query">>,
                               <<"Configure an Anvil">>}}

IsStatusLine(line) ==
    \E flat \in {Flatten(line)} : \E word \in StatusWords : str_contains(flat, word)

\* `.find(..)` and `.or_else(|| data.info.first().cloned())`, `found` the
\* positions of the lines that hold one of the words.
first_status_line(info, found) ==
    IF found # {} THEN info[CHOOSE i \in found : \A j \in found : i <= j]
    ELSE IF info # <<>> THEN info[1]
    ELSE <<"No account data available.">>

address_status_message(data) ==
    IF IsSome(data.overview)
    THEN <<"Balance: ">> \o format_units_ether(Unwrap(data.overview).balance_wei) \o <<" ETH">>
    ELSE CHOOSE message \in
            {first_status_line(data.info, found) :
                found \in {{i \in 1..Len(data.info) : IsStatusLine(data.info[i])}}} : TRUE

RECURSIVE CacheRows(_, _)
CacheRows(cache, rows) ==
    IF rows = <<>> THEN cache
    ELSE CacheRows(MapPut(cache, Head(rows).hash, Head(rows)), Tail(rows))

\* A faulty staleness test: the identifier is not compared.
result_matches_kind_only(selected, kind, identifier) ==
    IsSome(selected) /\ Unwrap(selected).kind = kind

\* The staleness check: the selection is of the result's kind and carries
\* exactly the result's identifier.
result_matches(selected, kind, identifier) ==
    /\ IsSome(selected)
    /\ Unwrap(selected).kind = kind
    /\ EntityKey(Unwrap(selected)) = identifier

\* A faulty drain: a search result is applied only while the top bar still
\* waits for one.
search_completed_if_pending(a, message, io_ok) ==
    IF ~a.top_bar.pending_search THEN a
    ELSE LET a1 == [TopBar_update(a, [type |-> "SearchCompleted", query |-> message.query,
                                      entity |-> message.entity], io_ok).a
                      EXCEPT !.err = a.err]
             a2 == dispatch(a1, PaneAction("LoadingFinished", "Top"))
             a3 == dispatch(a2, SelectionChanged(message.entity))
         IN dispatch(a3, PaneAction("FocusPane", "MainView"))

\* The SearchCompleted arm of drain_messages; the result of top_bar_command
\* is dropped (`let _ =`).
search_completed(a, message, io_ok) ==
    LET a1 == [TopBar_update(a, [type |-> "SearchCompleted", query |-> message.query,
                                 entity |-> message.entity], io_ok).a
                 EXCEPT !.err = a.err]
        a2 == dispatch(a1, PaneAction("LoadingFinished", "Top"))
        a3 == dispatch(a2, SelectionChanged(message.entity))
    IN dispatch(a3, PaneAction("FocusPane", "MainView"))

drain_message(a, message, io_ok) ==
    CASE message.type = "SearchCompleted" -> search_completed(a, message, io_ok)
      [] message.type = "SearchFailed" ->
           LET a1 == TopBar_update(a, [type |-> "SearchFailed", query |-> message.query,
                                       error |-> message.error], TRUE).a
               a2 == dispatch(a1, PaneAction("LoadingFinished", "Top"))
           IN IF a1.panic THEN a1
              ELSE [a2 EXCEPT !.state.search_error = Some(message.error)]
      [] message.type = "AddressHydrated" ->
           IF result_matches(a.state.selected, "Address", message.data.identifier)
           THEN LET data == message.data
                    cached_rows == IF IsSome(data.transactions_table)
                                   THEN Some(Unwrap(data.transactions_table).rows) ELSE None
                    row_count == IF IsSome(cached_rows) THEN Len(Unwrap(cached_rows)) ELSE 0
                    a1 == [a EXCEPT
                             !.state.current_address = Some(data),
                             !.state.address_transactions_view.selected_index =
                                 ViewState_clamp(@, row_count),
                             !.state.transaction_preview_cache =
                                 IF IsSome(cached_rows) THEN CacheRows(@, Unwrap(cached_rows))
                                 ELSE @]
                IN CHOOSE shown \in
                      UNION {{dispatch(a2, PaneAction("LoadingFinished", "MainView")) :
                                 a2 \in {show_status(a1, status)}} :
                                status \in {address_status_message(data)}} : TRUE
           ELSE a
      [] message.type = "TransactionHydrated" ->
           IF result_matches(a.state.selected, "Transaction", message.data.identifier)
           THEN dispatch([a EXCEPT !.state.current_transaction = Some(message.data)],
                         PaneAction("LoadingFinished", "MainView"))
           ELSE a

(***************************************************************************)
(* App::new.  The arguments are what construction reads: the two favorites *)
(* partitions, the stored secrets and the stored last query.               *)
(***************************************************************************)
EmptyMap == [k \in {} |-> None]

\* A faulty conversion: the stored label is ignored.
RecordRef_identifier_label(kind, record) ==
    IF kind = "Address"
    THEN AddressEntity(record.identifier, record.identifier, record.chain)
    ELSE TransactionEntity(record.identifier, record.identifier, record.chain)

RecordRef(kind, record) ==
    LET label == IF IsSome(record.label) THEN Unwrap(record.label) ELSE record.identifier
    IN IF kind = "Address"
       THEN AddressEntity(label, record.identifier, record.chain)
       ELSE TransactionEntity(label, record.identifier, record.chain)

\* SecretsState::resolve_secret.  env_value is the environment variable of
\* the key: None when it is not set.  The result is the secret and what the
\* secrets store holds under the key afterwards: a variable that is set
\* replaces the stored value, or removes it when it is blank.
resolve_secret(stored, env_value) ==
    IF IsSome(env_value)
    THEN IF Trim(Unwrap(env_value)) # <<>>
         THEN [value |-> Some(Trim(Unwrap(env_value))),
               store |-> Some(Trim(Unwrap(env_value)))]
         ELSE [value |-> None, store |-> None]
    ELSE [value |-> IF IsSome(stored) /\ Trim(Unwrap(stored)) # <<>>
                    THEN Some(Trim(Unwrap(stored))) ELSE None,
          store |-> stored]

\* SecretsState::load.
SecretsState_load(stored, env) ==
    LET etherscan == resolve_secret(stored.etherscan_api_key, env.etherscan_api_key)
        anvil == resolve_secret(stored.anvil_rpc_url, env.anvil_rpc_url)
    IN [secrets |-> [etherscan_api_key |-> etherscan.value,
                     anvil_rpc_url |-> anvil.value],
        store |-> [etherscan_api_key |-> etherscan.store,
                   anvil_rpc_url |-> anvil.store]]

\* A faulty startup: an address opens on the first tab of its mode.
startup_tab_first(kind) ==
    IF kind = "Address" THEN "AddressInfo" ELSE "TransactionSummary"

startup_tab(kind) ==
    IF kind = "Address" THEN "AddressTransactions" ELSE "TransactionSummary"

\* App::new after `SecretsState::load(&storage)?`: `loaded` holds the secrets and
\* what the secrets store holds by then.
App_loaded(addresses, transactions, loaded, last_query) ==
    LET st0 == [AppState_default EXCEPT !.secrets = loaded.secrets]
        needs_modal == ~IsSome(st0.secrets.etherscan_api_key)
                       \/ ~IsSome(st0.secrets.anvil_rpc_url)
        st1 == IF needs_modal
               THEN [st0 EXCEPT !.navigation = focus_modal(@)]
               ELSE st0
        address_records == FavoritesRepository_list(addresses)
        transaction_records == FavoritesRepository_list(transactions)
        address_refs == [i \in 1..Len(address_records) |->
                            RecordRef("Address", address_records[i])]
        transaction_refs == [i \in 1..Len(transaction_records) |->
                                RecordRef("Transaction", transaction_records[i])]
        sb == set_transactions(
                  set_addresses(Sidebar_default, address_refs, st1.navigation.sidebar_tab),
                  transaction_refs, st1.navigation.sidebar_tab)
        first == selected_entity(sb, st1.navigation.sidebar_tab, 0)
        selected == IF IsSome(first) THEN first
                    ELSE selected_entity(sb, SidebarTab_next(st1.navigation.sidebar_tab), 0)
        st2 == [st1 EXCEPT
                  !.favorite_addresses = {address_records[i].identifier :
                                             i \in 1..Len(address_records)},
                  !.favorite_transactions = {transaction_records[i].identifier :
                                                i \in 1..Len(transaction_records)},
                  !.selected = selected]
        st3 == IF IsSome(selected)
               THEN [st2 EXCEPT
                       !.navigation.main_view_mode = Unwrap(selected).kind,
                       !.navigation.main_view_tab = startup_tab(Unwrap(selected).kind)]
               ELSE st2
        app == [running |-> FALSE,
                err |-> FALSE,
                panic |-> FALSE,
                state |-> st3,
                storage |-> [favorites_addresses |-> addresses,
                             favorites_transactions |-> transactions,
                             settings |-> last_query,
                             secrets |-> loaded.store],
                top_bar |-> TopBar_init(TopBar_default, last_query),
                sidebar |-> sb,
                secrets_modal |-> IF needs_modal THEN Some(SecretsModal_new(st0)) ELSE None,
                tasks |-> EmptyMap,
                dispatched |-> <<>>]
    IN IF IsSome(selected) THEN start_hydration(app, Unwrap(selected)) ELSE app

App_new(addresses, transactions, secrets, last_query, env) ==
    CHOOSE app \in {App_loaded(addresses, transactions, loaded, last_query) :
                       loaded \in {SecretsState_load(secrets, env)}} : TRUE

(***************************************************************************)
(* The data the model runs on.                                             *)
(***************************************************************************)
HexString(c, n) == <<"0", "x">> \o Rep(c, n)

AddrA == HexString("a", AddressHexLen)
AddrAUpper == HexString("A", AddressHexLen)
AddrB == HexString("b", AddressHexLen)
HashC == HexString("c", HashHexLen)
HashD == HexString("d", HashHexLen)

Sepolia == <<"S", "e", "p", "o", "l", "i", "a">>

OneAndAHalfEther == <<"1", "5">> \o Rep("0", 17)

RecA == [label |-> None, identifier |-> AddrA, chain |-> Mainnet]
RecB == [label |-> Some(<<"Vault">>), identifier |-> AddrB, chain |-> Sepolia]
RecC == [label |-> None, identifier |-> HashC, chain |-> Mainnet]
RecD == [label |-> Some(<<"Swap">>), identifier |-> HashD, chain |-> Mainnet]

\* The store accepts any text as a key: a favourite whose identifier
\* short_hex cannot cut ("a" and five e-acute: byte 6 is inside a character).
AccentedText == <<"a">> \o Rep(EAcute, 5)
RecAcc == [label |-> None, identifier |-> AccentedText, chain |-> Mainnet]

Partition(records) ==
    [k \in {r.identifier : r \in records} |-> CHOOSE r \in records : r.identifier = k]

StoredFavorites ==
    {[addresses |-> Partition({}), transactions |-> Partition({})],
     [addresses |-> Partition({}), transactions |-> Partition({RecD})],
     [addresses |-> Partition({RecA, RecB}), transactions |-> Partition({RecC})],
     [addresses |-> Partition({RecA, RecAcc}), transactions |-> Partition({})]}

SecretValue == <<"k">>

StoredSecrets ==
    {[etherscan_api_key |-> None, anvil_rpc_url |-> None],
     [etherscan_api_key |-> Some(SecretValue), anvil_rpc_url |-> Some(SecretValue)]}

\* The environment App::new finds: ETHERSCAN_API_KEY and ANVIL_RPC_URL are not
\* set, hold a value with a blank in front of it, or hold a blank.
EnvUnset == [etherscan_api_key |-> None, anvil_rpc_url |-> None]

Environments ==
    {EnvUnset,
     [etherscan_api_key |-> Some(<<" ">> \o SecretValue),
      anvil_rpc_url |-> Some(<<" ">> \o SecretValue)],
     [etherscan_api_key |-> Some(<<" ">>), anvil_rpc_url |-> Some(<<" ">>)]}

Tx1 == [hash |-> HashC, block_number |-> 5, from |-> AddrAUpper, to |-> Some(AddrB),
        value_wei |-> OneAndAHalfEther, is_error |-> FALSE, input |-> None]

Tx2 == [hash |-> HashD, block_number |-> 0, from |-> AddrB, to |-> None,
        value_wei |-> <<"0">>, is_error |-> TRUE, input |-> None]

Overview1 == [latest_block |-> 7, balance_wei |-> OneAndAHalfEther,
              transaction_count |-> 3, is_contract |-> FALSE]

OverviewOutcomes == {[kind |-> "ok", data |-> Overview1], [kind |-> "timeout"]}

FallbackOutcomes == {[kind |-> "error"]}

HistoryOutcomes == {[kind |-> "ok", entries |-> <<Tx1, Tx2>>], [kind |-> "http"]}

Key(mods, code) == [mods |-> mods, code |-> code]

KeyInputs ==
    {Key("NONE", "q"), Key("NONE", "Esc"), Key("NONE", "/"), Key("NONE", "Tab"),
     Key("SHIFT", "Tab"), Key("NONE", "]"), Key("NONE", "j"), Key("NONE", "k"),
     Key("NONE", "2"), Key("NONE", "3"), Key("NONE", "Enter"), Key("NONE", "f")}

\* A search text of 11 bytes whose byte 6 lies inside a character.
AccentedQuery == AccentedText

PasteInputs == {AddrB, HashC, SecretValue, AccentedQuery}

(***************************************************************************)
(* The running program: App::run, the event sources and the worker pool.   *)
(* pc is the position of the main loop: "tick" (component ticks and the    *)
(* drain loop), "render", "events" (handle_events), "done" (run returned   *)
(* Ok), "failed" (run returned an error) or "panicked" (a panic unwound the *)
(* main thread out of run).  inputs counts the handled                     *)
(* input events.  toggle_log is a history variable: one entry per          *)
(* toggle_favorite call made with an entity selected, holding the outcome  *)
(* of its store operation and the favorites as they were before the call;  *)
(* any other input event empties it.  dispatched is a history variable     *)
(* too: the SelectionChanged and Quit actions App::dispatch received       *)
(* during the last step, in order (in the initial state: the startup       *)
(* selection made by App::new).                                            *)
(***************************************************************************)
Self ==
    [running |-> running, err |-> FALSE, panic |-> FALSE, state |-> state,
     storage |-> storage,
     top_bar |-> top_bar, sidebar |-> sidebar, secrets_modal |-> secrets_modal,
     tasks |-> tasks, dispatched |-> <<>>]

SetSelf(a) ==
    /\ running' = a.running
    /\ state' = a.state
    /\ storage' = a.storage
    /\ top_bar' = a.top_bar
    /\ sidebar' = a.sidebar
    /\ secrets_modal' = a.secrets_modal
    /\ tasks' = a.tasks
    /\ dispatched' = a.dispatched

InFlight(a) == TaskCount(a.tasks) + Len(channel)

\* Where the loop continues after handle_events returned.
AfterEvents(a) ==
    IF a.panic THEN "panicked"
    ELSE IF a.err THEN "failed" ELSE IF a.running THEN "tick" ELSE "done"

Favorites(a) ==
    [favorite_addresses |-> a.state.favorite_addresses,
     favorite_transactions |-> a.state.favorite_transactions,
     stored_addresses |-> a.storage.favorites_addresses,
     stored_transactions |-> a.storage.favorites_transactions,
     sidebar_addresses |-> a.sidebar.addresses,
     sidebar_transactions |-> a.sidebar.transactions,
     selected |-> a.state.selected,
     status |-> a.top_bar.status]

\* The key reaches toggle_favorite with an entity selected.
CallsToggle(a, key) ==
    /\ a.state.navigation.focused_pane = "MainView"
    /\ ~(a.top_bar.search_active /\ IsCharKey(key) /\ key.mods # "CONTROL")
    /\ key \in {[mods |-> "NONE", code |-> "f"], [mods |-> "SHIFT", code |-> "F"]}
    /\ IsSome(a.state.selected)

StartApp(a) ==
    /\ running = TRUE
    /\ state = a.state
    /\ storage = a.storage
    /\ top_bar = a.top_bar
    /\ sidebar = a.sidebar
    /\ secrets_modal = a.secrets_modal
    /\ tasks = a.tasks
    /\ channel = <<>>
    /\ pc = "tick"
    /\ inputs = 0
    /\ toggle_log = <<>>
    /\ dispatched = IF IsSome(a.state.selected)
                    THEN <<[type |-> "StartupSelection", entity |-> Unwrap(a.state.selected)]>>
                    ELSE <<>>

Init ==
    /\ \E favorites \in StoredFavorites, secrets \in StoredSecrets :
       \E env \in Environments :
       \E app \in {App_new(favorites.addresses, favorites.transactions, secrets, None, env)} :
          StartApp(app)
    /\ fn_in = <<>>
    /\ fn_out = <<>>

\* The arm of drain_messages has run: the loop goes on with the next message
\* unless the arm panicked.
Drained(drained) ==
    \E a \in {drained} :
       /\ SetSelf(a)
       /\ pc' = IF a.panic THEN "panicked" ELSE pc

\* A faulty drain: it takes the newest message first.
DrainMessage_newest_first ==
    /\ pc = "tick"
    /\ channel # <<>>
    /\ channel' = SubSeq(channel, 1, Len(channel) - 1)
    /\ \E io_ok \in IF channel[Len(channel)].type = "SearchCompleted" THEN BOOLEAN ELSE {TRUE} :
          Drained(drain_message(Self, channel[Len(channel)], io_ok))
    /\ UNCHANGED <<inputs, toggle_log, fn_in, fn_out>>

\* One iteration of `while let Ok(message) = self.message_rx.try_recv()`.
DrainMessage ==
    /\ pc = "tick"
    /\ channel # <<>>
    /\ channel' = Tail(channel)
    /\ \E io_ok \in IF Head(channel).type = "SearchCompleted" THEN BOOLEAN ELSE {TRUE} :
          Drained(drain_message(Self, Head(channel), io_ok))
    /\ UNCHANGED <<inputs, toggle_log, fn_in, fn_out>>

\* A faulty tick: it returns without looking at the channel.
TickDone_without_drain ==
    /\ pc = "tick"
    /\ pc' = "render"
    /\ dispatched' = <<>>
    /\ UNCHANGED <<app_vars, channel, inputs, toggle_log, fn_in, fn_out>>

\* try_recv finds the channel empty: tick returns.
TickDone ==
    /\ pc = "tick"
    /\ channel = <<>>
    /\ pc' = "render"
    /\ dispatched' = <<>>
    /\ UNCHANGED <<app_vars, channel, inputs, toggle_log, fn_in, fn_out>>

CalldataShown == 66

\* App::render, the closure terminal.draw runs: the top bar, the sidebar and
\* the main view are drawn in this order (the bottom bar and the modal
\* shorten nothing).  The panes change nothing; they pass these texts to
\* short_hex, which panics on a text it cannot cut at a byte boundary:
\*   TopBar::render      the identifier of the selected entity;
\*   Sidebar::render     the address of every entry, on the Addresses tab;
\*   MainView::render    nothing when a search error is shown; else the
\*                       identifier of the selected entity when its kind is
\*                       the mode (the top bar has shortened it already);
\*                       on the summary tab of a hydrated transaction its
\*                       sender, recipient and hash, and the calldata is
\*                       cut at byte 66 when it is longer; on the
\*                       transactions tab of a hydrated address the hash of
\*                       every table row, when the pane is at least four
\*                       lines high (`tall`).
\* The value is "panicked" when one of these panics and "drawn" otherwise.
App_render(a, tall) ==
    LET st == a.state
        nav == st.navigation
        tab == normalize(nav.main_view_tab, nav.main_view_mode)
        top_bar_texts ==
            IF IsSome(st.selected) THEN {EntityKey(Unwrap(st.selected))} ELSE {}
        sidebar_texts ==
            IF nav.sidebar_tab = "Addresses"
            THEN {a.sidebar.addresses[i].address : i \in 1..Len(a.sidebar.addresses)}
            ELSE {}
        address_data ==
            IF /\ IsSome(st.selected)
               /\ Unwrap(st.selected).kind = "Address"
               /\ IsSome(st.current_address)
               /\ Unwrap(st.current_address).identifier = Unwrap(st.selected).address
            THEN st.current_address
            ELSE None
        transaction_data ==
            IF /\ IsSome(st.selected)
               /\ Unwrap(st.selected).kind = "Transaction"
               /\ IsSome(st.current_transaction)
               /\ Unwrap(st.current_transaction).identifier = Unwrap(st.selected).hash
            THEN st.current_transaction
            ELSE None
        summary ==
            /\ st.search_error = None
            /\ ~st.loading.main_view
            /\ nav.main_view_mode = "Transaction"
            /\ IsSome(transaction_data)
            /\ tab = "TransactionSummary"
        summary_texts ==
            IF summary
            THEN LET data == Unwrap(transaction_data)
                 IN (IF IsSome(data.from) THEN {Unwrap(data.from)} ELSE {})
                    \cup (IF IsSome(data.to) THEN {Unwrap(data.to)} ELSE {})
                    \cup {data.identifier}
            ELSE {}
        cut(value, len) == len > CalldataShown /\ CharsUpTo(value, len, CalldataShown) = {}
        calldata_panics ==
            /\ summary
            /\ IsSome(Unwrap(transaction_data).calldata)
            /\ \E value \in {Flatten(Unwrap(Unwrap(transaction_data).calldata))} :
                  \E len \in {ByteLen(value)} : cut(value, len)
        table ==
            IF /\ st.search_error = None
               /\ nav.main_view_mode = "Address"
               /\ tab = "AddressTransactions"
               /\ ~st.loading.main_view
               /\ IsSome(address_data)
            THEN Unwrap(address_data).transactions_table
            ELSE None
        table_texts ==
            IF IsSome(table) /\ Unwrap(table).rows # <<>> /\ tall
            THEN {Unwrap(table).rows[i].hash : i \in 1..Len(Unwrap(table).rows)}
            ELSE {}
    IN IF \/ \E text \in top_bar_texts \cup sidebar_texts \cup summary_texts \cup table_texts :
               short_hex(text) = Panic
          \/ calldata_panics
       THEN "panicked"
       ELSE "drawn"

\* `terminal.draw(|frame| self.render(frame))?`: the frame is drawn, which
\* changes nothing; or the terminal returns an error and run returns it; or
\* the render panics and the panic unwinds out of run.  `tall` is the
\* height of the terminal.
Render ==
    /\ pc = "render"
    /\ \E drawn \in BOOLEAN, tall \in BOOLEAN :
          \E rendered \in {App_render(Self, tall)} :
             pc' = IF ~drawn THEN "failed"
                   ELSE IF rendered = "panicked" THEN "panicked"
                   ELSE "events"
    /\ dispatched' = <<>>
    /\ UNCHANGED <<app_vars, channel, inputs, toggle_log, fn_in, fn_out>>

\* handle_events without a key or paste event: event::poll timed out or the
\* event was a mouse, resize or other event; or `event::poll(..)?` or
\* `event::read()?` returned an error, which run returns.
PollTimeout ==
    /\ pc = "events"
    /\ \E polled \in BOOLEAN : pc' = IF polled THEN AfterEvents(Self) ELSE "failed"
    /\ dispatched' = <<>>
    /\ UNCHANGED <<app_vars, channel, inputs, toggle_log, fn_in, fn_out>>

StorageOutcomes(key) ==
    IF state.navigation.focused_pane = "Modal" /\ key.code = "Enter" THEN 0..2
    ELSE IF state.navigation.focused_pane = "MainView" /\ key.code \in {"f", "F"} THEN 0..1
    ELSE {0}

Handled(handled) ==
    \E a \in {handled} :
       /\ InFlight(a) <= MaxInFlight
       /\ SetSelf(a)
       /\ pc' = AfterEvents(a)
       /\ UNCHANGED <<channel, fn_in, fn_out>>

KeyEvent ==
    /\ pc = "events"
    /\ inputs < MaxInputs
    /\ inputs' = inputs + 1
    /\ \E key \in KeyInputs : \E io \in StorageOutcomes(key) :
          /\ Handled(on_key_event(Self, key, io))
          /\ toggle_log' = IF CallsToggle(Self, key)
                           THEN Append(toggle_log, [ok |-> io = 0, before |-> Favorites(Self)])
                           ELSE <<>>

PasteEvent ==
    /\ pc = "events"
    /\ inputs < MaxInputs
    /\ inputs' = inputs + 1
    /\ \E content \in PasteInputs : Handled(on_paste_event(Self, content))
    /\ toggle_log' = <<>>

\* The MainView commands no key is bound to, issued as an input event.
ApiTabs == {"AddressTransactions", "AddressPermissions", "TransactionSummary", "TransactionDebug"}

ApiCommands ==
    {[type |-> "SetMode", mode |-> m] : m \in MainViewMode}
    \cup {[type |-> "SwitchTab", tab |-> t] : t \in ApiTabs}

ApiEvent ==
    /\ pc = "events"
    /\ inputs < MaxInputs
    /\ inputs' = inputs + 1
    /\ \E cmd \in ApiCommands : Handled(main_view_command(Self, cmd))
    /\ toggle_log' = <<>>

\* What `std::env::var("ANVIL_RPC_URL")` can give a task.  The environment
\* does not change while the program runs.  A task whose secrets hold an
\* endpoint does not read the variable.  A task whose secrets hold none finds
\* the variable as App::new found it: not set or blank, since resolve_secret
\* took any other value into the secrets.
TaskEnvironment(task) ==
    IF task.kind = "hydrate_address" /\ task.secrets.anvil_rpc_url = None
    THEN {None, Some(<<" ">>)}
    ELSE {None}

\* A background task finishes and spawn_async forwards its message.
TaskMessage(task, env_rpc, ov, fb, txr) ==
    CASE task.kind = "hydrate_address" ->
           [type |-> "AddressHydrated",
            data |-> hydrate_address(task.addr, task.secrets, env_rpc, ov, fb, txr)]
      [] task.kind = "hydrate_transaction" ->
           [type |-> "TransactionHydrated",
            data |-> hydrate_transaction(task.tx, task.preview)]
      [] task.kind = "search" ->
           LET decoded == decode_query(task.query)
           IN IF decoded.ok
              THEN [type |-> "SearchCompleted", query |-> task.query,
                    entity |-> decoded.entity]
              ELSE [type |-> "SearchFailed", query |-> task.query,
                    error |-> decoded.error]

\* A faulty delivery: the message is lost.
Delivered_dropped(message) == channel' = channel

\* A faulty delivery: the message is sent twice.
Delivered_twice(message) == channel' = Append(Append(channel, message), message)

\* `let _ = sender.send(message);`
Delivered(message) == channel' = Append(channel, message)

\* The task panicked: the runtime drops it and nothing is sent.
TaskPanicked(message) ==
    message.type \in {"AddressHydrated", "TransactionHydrated"} /\ message.data = Unwound

\* The spawned future ends: `let message = task().await;` and the send.
Completes ==
    /\ dispatched' = <<>>
    /\ UNCHANGED <<running, state, storage, top_bar, sidebar, secrets_modal,
                   pc, inputs, toggle_log, fn_in, fn_out>>
    /\ \E task \in DOMAIN tasks :
          /\ tasks' = TaskRemove(tasks, task)
          /\ \E env_rpc \in TaskEnvironment(task), ov \in OverviewOutcomes,
                fb \in FallbackOutcomes, txr \in HistoryOutcomes :
                \E message \in {TaskMessage(task, env_rpc, ov, fb, txr)} :
                   IF TaskPanicked(message) THEN channel' = channel ELSE Delivered(message)

\* A task ends while the loop is in tick or waits for an event.  Once run has
\* returned, the App and with it the runtime and the receiver are dropped: a
\* task still running then delivers nothing.
TaskCompletes ==
    /\ pc \in {"tick", "events"}
    /\ Completes

\* A task ends while the frame is drawn.
TaskCompletesInRender ==
    /\ pc = "render"
    /\ Completes

Next ==
    \/ DrainMessage
    \/ TickDone
    \/ Render
    \/ PollTimeout
    \/ KeyEvent
    \/ PasteEvent
    \/ TaskCompletes
    \/ TaskCompletesInRender

Spec == Init /\ [][Next]_vars

\* The program with the runtime's worker threads making progress: a spawned
\* future runs on the runtime whatever the main loop does, every request in it
\* has a timeout, so a task that is running ends as long as the App lives.
SpecFair ==
    Init /\ [][Next]_vars /\ WF_vars(TaskCompletes \/ TaskCompletesInRender)

\* The program with a main loop that keeps going round: try_recv does not
\* block, terminal.draw returns, and event::poll returns after 50 ms at the
\* latest.  It starts with stored favorites of both kinds and both secrets.
InitLoop ==
    /\ \E app \in {App_new(Partition({RecA, RecB}), Partition({RecC}),
                             [etherscan_api_key |-> Some(SecretValue),
                              anvil_rpc_url |-> Some(SecretValue)], None, EnvUnset)} :
          StartApp(app)
    /\ fn_in = <<>>
    /\ fn_out = <<>>

SpecLoop ==
    /\ InitLoop
    /\ [][Next]_vars
    /\ WF_vars(DrainMessage \/ TickDone)
    /\ WF_vars(Render)
    /\ WF_vars(PollTimeout \/ KeyEvent \/ PasteEvent)

\* The program with both: the main loop keeps going round and the worker
\* threads of the runtime make progress.
SpecSettle ==
    /\ InitLoop
    /\ [][Next]_vars
    /\ WF_vars(DrainMessage \/ TickDone)
    /\ WF_vars(Render)
    /\ WF_vars(PollTimeout \/ KeyEvent \/ PasteEvent)
    /\ WF_vars(TaskCompletes \/ TaskCompletesInRender)

\* The program from the moment a submitted search was cancelled: the
\* hydration of the startup selection arrived with two transactions, the user
\* pressed "/" (FocusPane(Top) and ActivateSearch), pasted an address
\* (handle_search_paste), pressed Enter (Submit) and then Esc (Cancel), the
\* search task still running.  The exploration goes on for MaxInputs - 1
\* further input events.
SearchQueries == {AddrB}

\* The loop is about to tick with the application as the last handler left
\* it; of the input events handled so far, `handled` count towards MaxInputs.
LoopAt(a, handled) ==
    /\ running = TRUE
    /\ state = a.state
    /\ storage = a.storage
    /\ top_bar = a.top_bar
    /\ sidebar = a.sidebar
    /\ secrets_modal = a.secrets_modal
    /\ tasks = a.tasks
    /\ channel = <<>>
    /\ pc = "tick"
    /\ inputs = handled
    /\ toggle_log = <<>>
    /\ dispatched = <<>>
    /\ fn_in = <<>>
    /\ fn_out = <<>>

SearchInFlight(query) ==
    \E a0 \in {App_new(Partition({RecA, RecB}), Partition({RecC}),
                        [etherscan_api_key |-> Some(SecretValue),
                         anvil_rpc_url |-> Some(SecretValue)], None, EnvUnset)} :
    \E task \in DOMAIN a0.tasks :
    \E message \in {TaskMessage(task, None, [kind |-> "ok", data |-> Overview1], [kind |-> "error"],
                                 [kind |-> "ok", entries |-> <<Tx1, Tx2>>])} :
    \E ah \in {drain_message([a0 EXCEPT !.tasks = TaskRemove(@, task)], message, TRUE)} :
    \E a1 \in {top_bar_command(dispatch(ah, PaneAction("FocusPane", "Top")),
                                [type |-> "ActivateSearch"], TRUE)} :
    \E a2 \in {handle_search_paste(a1, query)} :
    \E a3 \in {top_bar_command(a2, [type |-> "Submit"], TRUE)} :
    \E a4 \in {top_bar_command(a3, [type |-> "Cancel"], TRUE)} :
       LoopAt(a4, 1)

InitSearch == \E query \in SearchQueries : SearchInFlight(query)

SpecSearch == InitSearch /\ [][Next]_vars

\* The same with the user searching for a stored favorite address written in
\* capital hex digits.
InitCase == SearchInFlight(AddrAUpper)

SpecCase == InitCase /\ [][Next]_vars

\* The program together with the unbound MainView commands.
NextApi == Next \/ ApiEvent

SpecApi == Init /\ [][NextApi]_vars

\* The program, with the unbound MainView commands, from the moment the user
\* opened a row of the transactions table: the hydration of the startup
\* selection arrived with two transactions, the user pressed "3"
\* (FocusPane(MainView)) and Enter (ActivateSelection).
\* inputs counts the events handled from here on.
RowOpened ==
    \E a0 \in {App_new(Partition({RecA, RecB}), Partition({RecC}),
                        [etherscan_api_key |-> Some(SecretValue),
                         anvil_rpc_url |-> Some(SecretValue)], None, EnvUnset)} :
    \E task \in DOMAIN a0.tasks :
    \E message \in {TaskMessage(task, None, [kind |-> "ok", data |-> Overview1], [kind |-> "error"],
                                 [kind |-> "ok", entries |-> <<Tx1, Tx2>>])} :
    \E a1 \in {drain_message([a0 EXCEPT !.tasks = TaskRemove(@, task)], message, TRUE)} :
    \E a2 \in {dispatch(a1, PaneAction("FocusPane", "MainView"))} :
    \E a3 \in {main_view_command(a2, [type |-> "ActivateSelection"])} :
       LoopAt(a3, 0)

InitOpened == RowOpened

SpecOpened == InitOpened /\ [][NextApi]_vars

(***************************************************************************)
(* Harnesses for the pure functions: the inputs are drawn in the initial   *)
(* state (fn_in) and each action applies one function, recording the       *)
(* result in fn_out.  The application itself is idle in these.             *)
(***************************************************************************)
IdleApp ==
    /\ \E app \in {App_new(Partition({}), Partition({}),
                             [etherscan_api_key |-> Some(SecretValue),
                              anvil_rpc_url |-> Some(SecretValue)], None, EnvUnset)} :
          StartApp(app)

InitTabs ==
    /\ IdleApp
    /\ fn_in \in [tab : MainViewTab, mode : MainViewMode]
    /\ fn_out = <<>>

CurrentTab == IF fn_out = <<>> THEN fn_in.tab ELSE fn_out[Len(fn_out)].tab

ApplyTab(op, tab) ==
    /\ Len(fn_out) < MaxOps
    /\ fn_out' = Append(fn_out, [op |-> op, tab |-> tab])
    /\ UNCHANGED <<app_vars, channel, pc, inputs, toggle_log, dispatched, fn_in>>

ApplyNormalize == ApplyTab("normalize", normalize(CurrentTab, fn_in.mode))

ApplyNext == ApplyTab("next", next(CurrentTab, fn_in.mode))

ApplyPrevious == ApplyTab("previous", previous(CurrentTab, fn_in.mode))

NextTabs == ApplyNormalize \/ ApplyNext \/ ApplyPrevious

SpecTabs == InitTabs /\ [][NextTabs]_vars

RowTargets == {AddrA, AddrB}

RowParties == {AddrA, AddrAUpper, AddrB, HexString("e", AddressHexLen)}

RowTransactions ==
    {[hash |-> HashC, block_number |-> 5, from |-> f, to |-> t,
      value_wei |-> v, is_error |-> FALSE, input |-> None] :
        f \in RowParties, t \in {None} \cup {Some(x) : x \in RowParties},
        v \in {<<"0">>, OneAndAHalfEther}}

InitRow ==
    /\ IdleApp
    /\ fn_in \in [target : RowTargets, tx : RowTransactions]
    /\ fn_out = <<>>

BuildRow ==
    /\ fn_out = <<>>
    /\ fn_out' = <<from_transaction(fn_in.target, fn_in.tx)>>
    /\ UNCHANGED <<app_vars, channel, pc, inputs, toggle_log, dispatched, fn_in>>

NextRow == BuildRow

SpecRow == InitRow /\ [][NextRow]_vars

(***************************************************************************)
(* hydrate_address on its own: fn_in is the selected address, the secrets, *)
(* the value of ANVIL_RPC_URL in the environment and the outcomes of the   *)
(* three remote requests; fn_out the view built.                           *)
(***************************************************************************)
Polygon == <<"P", "o", "l", "y", "g", "o", "n">>

SupportedChains == {Mainnet, Sepolia}

HydrateAddresses ==
    {[label |-> None, address |-> a, chain |-> c] :
        a \in {AddrA, <<"0", "x", "1", "2">>}, c \in SupportedChains \cup {Polygon}}

HydrateSecrets ==
    [etherscan_api_key : {None, Some(<<" ">>), Some(SecretValue)},
     anvil_rpc_url : {None, Some(SecretValue)}]

\* ANVIL_RPC_URL is not set, holds a blank, or holds an endpoint with a blank in
\* front of it.
HydrateEnvironment == {None, Some(<<" ">>), Some(<<" ">> \o SecretValue)}

HydrateOverviews == OverviewOutcomes \cup {[kind |-> "error"]}

HydrateFallbacks == FallbackOutcomes \cup {[kind |-> "ok", block |-> 7], [kind |-> "timeout"]}

FailedHistories == {[kind |-> "http"], [kind |-> "parse"], [kind |-> "api"]}

HydrateHistories ==
    {[kind |-> "ok", entries |-> e] : e \in {<<>>, <<Tx1>>, <<Tx1, Tx2>>}}
    \cup FailedHistories

HydrateInputs ==
    [addr : HydrateAddresses, secrets : HydrateSecrets, env_rpc : HydrateEnvironment,
     ov : HydrateOverviews, fb : HydrateFallbacks, txr : HydrateHistories]

InitHydrate ==
    /\ IdleApp
    /\ fn_in \in HydrateInputs
    /\ fn_out = <<>>

HydrateAddress ==
    /\ fn_out = <<>>
    /\ fn_out' = <<hydrate_address(fn_in.addr, fn_in.secrets, fn_in.env_rpc,
                                   fn_in.ov, fn_in.fb, fn_in.txr)>>
    /\ UNCHANGED <<app_vars, channel, pc, inputs, toggle_log, dispatched, fn_in>>

NextHydrate == HydrateAddress

SpecHydrate == InitHydrate /\ [][NextHydrate]_vars

(***************************************************************************)
(* Submit of the secrets modal on its own: fn_in holds the secrets stored  *)
(* at startup (one of them missing, so App::new opens the modal), the text *)
(* of the two fields, the focused field and the outcome of the store       *)
(* (0: both writes succeed, 1: the first fails, 2: the second fails);      *)
(* fn_out the application after Enter.                                     *)
(***************************************************************************)
\* A field is empty, holds white space only, a value, or a value with white
\* space around it (a no-break space in front, a form feed and a blank behind).
PaddedSecret == <<NoBreakSpace>> \o SecretValue \o <<"\f", " ">>

FieldValues == {<<>>, <<" ", NoBreakSpace>>, SecretValue, PaddedSecret}

PartialSecrets ==
    {[etherscan_api_key |-> None, anvil_rpc_url |-> None],
     [etherscan_api_key |-> Some(SecretValue), anvil_rpc_url |-> None],
     [etherscan_api_key |-> None, anvil_rpc_url |-> Some(SecretValue)]}

SubmitInputs ==
    [stored : PartialSecrets, etherscan : FieldValues, anvil : FieldValues,
     field : {"Etherscan", "Anvil"}, fail_at : 0..2]

\* The application with the modal opened by App::new and the fields edited.
ModalApp(i) ==
    LET a == App_new(Partition({RecA, RecB}), Partition({RecC}), i.stored, None, EnvUnset)
    IN [a EXCEPT !.running = TRUE,
                 !.secrets_modal = Some([Unwrap(@) EXCEPT !.etherscan_value = i.etherscan,
                                                          !.anvil_value = i.anvil,
                                                          !.focused_field = i.field])]

InitSubmit ==
    /\ IdleApp
    /\ fn_in \in SubmitInputs
    /\ fn_out = <<>>

SubmitSecrets ==
    /\ fn_out = <<>>
    /\ fn_out' = <<on_key_event(ModalApp(fn_in), Key("NONE", "Enter"), fn_in.fail_at)>>
    /\ UNCHANGED <<app_vars, channel, pc, inputs, toggle_log, dispatched, fn_in>>

NextSubmit == SubmitSecrets

SpecSubmit == InitSubmit /\ [][NextSubmit]_vars

(***************************************************************************)
(* Properties.                                                             *)
(***************************************************************************)
HydrationTypes == {"AddressHydrated", "TransactionHydrated"}

MessageKind(m) == IF m.type = "AddressHydrated" THEN "Address" ELSE "Transaction"

\* A step of the drain loop that consumes the head of the channel.
Draining == pc = "tick" /\ channel # <<>> /\ channel' = Tail(channel)

\* The selected entity has the kind and the identifier of the message.
ForSelected(m) ==
    /\ IsSome(state.selected)
    /\ Unwrap(state.selected).kind = MessageKind(m)
    /\ EntityKey(Unwrap(state.selected)) = m.data.identifier

Stored(m) ==
    /\ state'.loading.main_view = FALSE
    /\ IF m.type = "AddressHydrated"
       THEN state'.current_address = Some(m.data)
       ELSE state'.current_transaction = Some(m.data)

\* C1: draining an AddressHydrated or TransactionHydrated message stores the
\* result and clears the MainView loading flag when the selected entity is of
\* the message's kind and has its identifier; in every other case the message
\* is discarded and no application state changes.
C1_FreshResultApplied ==
    [][(Draining /\ Head(channel).type \in HydrationTypes)
        => IF ForSelected(Head(channel))
           THEN Stored(Head(channel))
           ELSE UNCHANGED app_vars]_vars

C1_Witness ==
    /\ IsSome(state.selected)
    /\ Unwrap(state.selected).kind = "Address"
    /\ IsSome(state.current_address)
    /\ Unwrap(state.current_address).identifier = Unwrap(state.selected).address
    /\ ~state.loading.main_view
    /\ inputs > 0

\* The result at the head of the channel belongs to an entity A selected
\* earlier, and another entity B (different kind or identifier) is selected.
Superseded(m) ==
    /\ m.type \in HydrationTypes
    /\ IsSome(state.selected)
    /\ \/ Unwrap(state.selected).kind # MessageKind(m)
       \/ EntityKey(Unwrap(state.selected)) # m.data.identifier

\* C2: when B was selected after A and before A's hydration message was
\* drained, draining A's result changes nothing: B stays selected, B's data
\* (if already there) is untouched and the loading flag keeps its value.
C2_SupersededResultIgnored ==
    [][(Draining /\ Superseded(Head(channel)))
        => /\ state' = state
           /\ UNCHANGED <<storage, top_bar, sidebar, secrets_modal, tasks, running>>]_vars

\* B's own result has arrived and A's is still waiting in the channel.
C2_Witness ==
    /\ pc = "tick"
    /\ channel # <<>>
    /\ Superseded(Head(channel))
    /\ Head(channel).type = "AddressHydrated"
    /\ Unwrap(state.selected).kind = "Address"
    /\ IsSome(state.current_address)
    /\ Unwrap(state.current_address).identifier = Unwrap(state.selected).address
    /\ ~state.loading.main_view

Memberships(f) ==
    <<f.favorite_addresses, f.favorite_transactions,
      f.stored_addresses, f.stored_transactions>>

\* C3: two toggle_favorite calls in a row, with no other input between them,
\* leave both membership sets and both persisted stores as they were before
\* the first call.
C3_DoubleToggleRestores ==
    (Len(toggle_log) = 2 /\ toggle_log[1].ok /\ toggle_log[2].ok)
        => Memberships(Favorites(Self)) = Memberships(toggle_log[1].before)

IdsOf(list, kind) ==
    {IF kind = "Address" THEN list[i].address ELSE list[i].hash : i \in 1..Len(list)}

\* C4: for each kind the membership set, the identifiers of the sidebar list
\* and the identifiers of the persisted store are the same set, after startup
\* and after every toggle.
C4_FavoritesAgree ==
    /\ state.favorite_addresses = IdsOf(sidebar.addresses, "Address")
    /\ state.favorite_addresses = DOMAIN storage.favorites_addresses
    /\ state.favorite_transactions = IdsOf(sidebar.transactions, "Transaction")
    /\ state.favorite_transactions = DOMAIN storage.favorites_transactions

\* A favorite was removed and another one added by completed toggles.
C4_Witness ==
    /\ Len(toggle_log) >= 1
    /\ toggle_log[Len(toggle_log)].ok
    /\ Memberships(Favorites(Self)) # Memberships(toggle_log[Len(toggle_log)].before)

LastToggleFailed == toggle_log # <<>> /\ ~toggle_log[Len(toggle_log)].ok

\* C5: a toggle whose store operation failed changed nothing in memory: the
\* membership sets, the sidebar lists and the selected entity are as before.
C5_FailedToggleChangesNothing ==
    LastToggleFailed
        => LET before == toggle_log[Len(toggle_log)].before
               now == Favorites(Self)
           IN /\ now.favorite_addresses = before.favorite_addresses
              /\ now.favorite_transactions = before.favorite_transactions
              /\ now.sidebar_addresses = before.sidebar_addresses
              /\ now.sidebar_transactions = before.sidebar_transactions
              /\ now.selected = before.selected

C5_Witness == LastToggleFailed /\ pc = "failed"

\* C6: a store failure during a toggle is reported on the status line and the
\* main loop keeps running; the error does not leave the key handler.
C6_FailedToggleReported ==
    LastToggleFailed
        => /\ pc \notin {"failed", "done"}
           /\ IsSome(top_bar.status)
           /\ top_bar.status # toggle_log[Len(toggle_log)].before.status

\* C7: main_view_tab is always a tab of main_view_mode.
C7_TabValidForMode ==
    normalize(state.navigation.main_view_tab, state.navigation.main_view_mode)
        = state.navigation.main_view_tab

\* The mode was switched while a tab of the other mode was showing.
C7_Witness ==
    /\ state.navigation.main_view_mode = "Transaction"
    /\ IsSome(state.selected)
    /\ Unwrap(state.selected).kind = "Address"
    /\ state.navigation.main_view_tab \in TransactionTabs

\* C8: normalize is idempotent and its result is a tab of the mode.
C8_NormalizeIdempotent ==
    /\ (Len(fn_out) >= 1 /\ fn_out[1].op = "normalize")
          => fn_out[1].tab \in tab_titles(fn_in.mode)
    /\ (Len(fn_out) >= 2 /\ fn_out[1].op = "normalize" /\ fn_out[2].op = "normalize")
          => fn_out[2].tab = fn_out[1].tab

C8_Witness ==
    /\ Len(fn_out) >= 2
    /\ fn_out[1].op = "normalize"
    /\ fn_out[2].op = "normalize"
    /\ fn_in.tab \notin tab_titles(fn_in.mode)

\* C9: previous after next, and next after previous, give normalize(t, m) for
\* every tab t, tabs of the other mode included.
C9_NextPreviousInverse ==
    (Len(fn_out) >= 2 /\ <<fn_out[1].op, fn_out[2].op>>
                            \in {<<"next", "previous">>, <<"previous", "next">>})
        => fn_out[2].tab = normalize(fn_in.tab, fn_in.mode)

C9_Witness ==
    /\ Len(fn_out) >= 2
    /\ fn_out[1].op = "next"
    /\ fn_out[2].op = "previous"
    /\ fn_in.tab \notin tab_titles(fn_in.mode)

\* The party is the target address, letter case aside.
IsTarget(party) == Lowercase(party) = Lowercase(fn_in.target)

ExpectedDirection ==
    LET sender == IsTarget(fn_in.tx.from)
        recipient == IsSome(fn_in.tx.to) /\ IsTarget(Unwrap(fn_in.tx.to))
    IN IF sender /\ recipient THEN "SelfTransfer"
       ELSE IF sender THEN "Outgoing"
       ELSE IF recipient THEN "Incoming"
       ELSE "Interaction"

\* C10: from_transaction classifies a row as SelfTransfer when sender and
\* recipient both match the target, Outgoing when only the sender does,
\* Incoming when only the recipient does, and Interaction otherwise; a
\* missing recipient never matches.
C10_DirectionClassified ==
    fn_out # <<>> => fn_out[1].direction = ExpectedDirection

C10_Witness ==
    /\ fn_out # <<>>
    /\ fn_out[1].direction = "SelfTransfer"
    /\ fn_in.tx.from # Unwrap(fn_in.tx.to)

\* No input event has been handled yet.
BeforeInput == inputs = 0

\* C11: when both favorites stores are empty at startup, then until the user
\* acts nothing is selected, no task is running, no message is in the
\* channel and the MainView pane is not loading.
C11_EmptyStartupIdle ==
    (BeforeInput /\ DOMAIN storage.favorites_addresses = {}
                 /\ DOMAIN storage.favorites_transactions = {})
        => /\ state.selected = None
           /\ DOMAIN tasks = {}
           /\ channel = <<>>
           /\ ~state.loading.main_view

\* The loop went through tick and render after an empty startup.
C11_Witness ==
    /\ BeforeInput
    /\ DOMAIN storage.favorites_addresses = {}
    /\ DOMAIN storage.favorites_transactions = {}
    /\ pc = "events"

ExpectedLabel(record) ==
    IF record.label # None THEN record.label[1] ELSE record.identifier

\* C12: every favorite record loaded at startup appears in the sidebar
\* with the record's label when it has one and with the record's identifier
\* as label when it has none.
C12_StartupLabels ==
    BeforeInput
        => /\ \A k \in DOMAIN storage.favorites_addresses :
                \E i \in 1..Len(sidebar.addresses) :
                   /\ sidebar.addresses[i].address = k
                   /\ sidebar.addresses[i].label
                         = ExpectedLabel(storage.favorites_addresses[k])
           /\ \A k \in DOMAIN storage.favorites_transactions :
                \E i \in 1..Len(sidebar.transactions) :
                   /\ sidebar.transactions[i].hash = k
                   /\ sidebar.transactions[i].label
                         = ExpectedLabel(storage.favorites_transactions[k])

\* A labelled and an unlabelled record were loaded.
C12_Witness ==
    /\ BeforeInput
    /\ \E k \in DOMAIN storage.favorites_addresses :
          storage.favorites_addresses[k].label = None
    /\ \E k \in DOMAIN storage.favorites_addresses :
          storage.favorites_addresses[k].label # None
    /\ \E k \in DOMAIN storage.favorites_transactions :
          storage.favorites_transactions[k].label = None

\* The tab normalize maps the tabs foreign to the mode to.
DefaultTab(mode) ==
    IF mode = "Address" THEN normalize("TransactionSummary", mode)
    ELSE normalize("AddressInfo", mode)

\* C16 as stated: when the main loop starts, focus is Top, the sidebar tab is
\* Addresses, the main-view mode is Address and the main-view tab is the
\* mode's default tab, whatever the stores hold.
C16_StartupNavigationDefault ==
    BeforeInput
        => /\ state.navigation.focused_pane = "Top"
           /\ state.navigation.sidebar_tab = "Addresses"
           /\ state.navigation.main_view_mode = "Address"
           /\ state.navigation.main_view_tab = DefaultTab(state.navigation.main_view_mode)

SecretsComplete ==
    state.secrets.etherscan_api_key # None /\ state.secrets.anvil_rpc_url # None

\* C16 amended: when the main loop starts the sidebar tab is Addresses and
\* the remembered return point is Top; focus is Top when both secrets are
\* known and Modal otherwise; the mode is the kind of the startup selection
\* (Address when nothing is selected); the tab is AddressTransactions for a
\* selected address and the mode's default tab otherwise.
C16_StartupNavigation ==
    BeforeInput
        => /\ state.navigation.sidebar_tab = "Addresses"
           /\ state.navigation.modal_return_focus = "Top"
           /\ state.navigation.focused_pane = (IF SecretsComplete THEN "Top" ELSE "Modal")
           /\ state.navigation.main_view_mode
                 = (IF state.selected = None THEN "Address" ELSE state.selected[1].kind)
           /\ state.navigation.main_view_tab
                 = (IF state.selected # None /\ state.selected[1].kind = "Address"
                    THEN "AddressTransactions"
                    ELSE DefaultTab(state.navigation.main_view_mode))

\* The loop starts with the secrets modal open and an address selected.
C16_Witness ==
    /\ BeforeInput
    /\ state.navigation.focused_pane = "Modal"
    /\ state.selected # None
    /\ state.selected[1].kind = "Address"
    /\ state.navigation.main_view_tab = "AddressTransactions"

(***************************************************************************)
(* Harness for the focus operations of NavigationState: fn_in is a         *)
(* navigation state the program can be in (a pane focused and remembered,  *)
(* or the modal layer focused with a pane remembered), fn_out the          *)
(* operations applied to it with the state each one produced.              *)
(***************************************************************************)
Panes == FocusedPane \ {"Modal"}

FocusStates ==
    {[NavigationState_default EXCEPT !.focused_pane = p, !.modal_return_focus = p] :
        p \in Panes}
    \cup {[NavigationState_default EXCEPT !.focused_pane = "Modal",
                                          !.modal_return_focus = p] : p \in Panes}

InitNav ==
    /\ IdleApp
    /\ fn_in \in FocusStates
    /\ fn_out = <<>>

CurrentNav == IF fn_out = <<>> THEN fn_in ELSE fn_out[Len(fn_out)].nav

ApplyNav(op, pane, nav) ==
    /\ Len(fn_out) < MaxOps
    /\ fn_out' = Append(fn_out, [op |-> op, pane |-> pane, nav |-> nav])
    /\ UNCHANGED <<app_vars, channel, pc, inputs, toggle_log, dispatched, fn_in>>

ApplyFocusNext == ApplyNav("focus_next", "-", focus_next(CurrentNav))

ApplyFocusPrevious == ApplyNav("focus_previous", "-", focus_previous(CurrentNav))

ApplyFocusModal == ApplyNav("focus_modal", "-", focus_modal(CurrentNav))

ApplyFocusPane == \E p \in FocusedPane : ApplyNav("focus_pane", p, focus_pane(CurrentNav, p))

ApplyRestoreFocus ==
    ApplyNav("restore_focus_after_modal", "-", restore_focus_after_modal(CurrentNav))

NextNav ==
    \/ ApplyFocusNext
    \/ ApplyFocusPrevious
    \/ ApplyFocusModal
    \/ ApplyFocusPane
    \/ ApplyRestoreFocus

SpecNav == InitNav /\ [][NextNav]_vars

\* The navigation state the i-th operation was applied to.
NavBefore(i) == IF i = 1 THEN fn_in ELSE fn_out[i - 1].nav

CycleNext ==
    [p \in Panes |-> CASE p = "Top" -> "Sidebar"
                       [] p = "Sidebar" -> "MainView"
                       [] p = "MainView" -> "BottomBar"
                       [] p = "BottomBar" -> "Top"]

\* C14: focus_next steps Top, Sidebar, MainView, BottomBar, Top; focus_previous
\* steps the same cycle backwards; either one undoes the other on the four
\* panes; neither ever ends with the modal layer focused.
C14_FocusCycle ==
    \A i \in 1..Len(fn_out) :
       LET before == NavBefore(i).focused_pane
           after == fn_out[i].nav.focused_pane
       IN /\ (fn_out[i].op = "focus_next" /\ before \in Panes)
                => after = CycleNext[before]
          /\ (fn_out[i].op = "focus_previous" /\ before \in Panes)
                => (after \in Panes /\ CycleNext[after] = before)
          /\ fn_out[i].op \in {"focus_next", "focus_previous"} => after # "Modal"
          /\ (i > 1 /\ NavBefore(i - 1).focused_pane \in Panes
                /\ <<fn_out[i - 1].op, fn_out[i].op>>
                      \in {<<"focus_next", "focus_previous">>,
                           <<"focus_previous", "focus_next">>})
                => after = NavBefore(i - 1).focused_pane

\* The cycle wrapped around and came back; then the modal layer was opened.
C14_Witness ==
    /\ Len(fn_out) = 3
    /\ fn_in.focused_pane = "BottomBar"
    /\ fn_out[1].op = "focus_next"
    /\ fn_out[2].op = "focus_previous"
    /\ fn_out[2].nav.focused_pane = "BottomBar"
    /\ fn_out[3].op = "focus_modal"

ModalCall(i) ==
    fn_out[i].op = "focus_modal" \/ (fn_out[i].op = "focus_pane" /\ fn_out[i].pane = "Modal")

\* C15: from a pane p, one or more modal requests followed by
\* restore_focus_after_modal end with p focused; a modal request made while
\* the modal layer is focused keeps the remembered pane; the remembered pane
\* is never Modal.
C15_ModalReturnsToPane ==
    /\ \A k \in 2..Len(fn_out) :
          (/\ fn_in.focused_pane \in Panes
           /\ \A i \in 1..(k - 1) : ModalCall(i)
           /\ fn_out[k].op = "restore_focus_after_modal")
             => fn_out[k].nav.focused_pane = fn_in.focused_pane
    /\ \A i \in 1..Len(fn_out) :
          /\ (ModalCall(i) /\ NavBefore(i).focused_pane = "Modal")
                => fn_out[i].nav.modal_return_focus = NavBefore(i).modal_return_focus
          /\ fn_out[i].nav.modal_return_focus # "Modal"
    /\ fn_in.modal_return_focus # "Modal"

\* Two modal requests in a row, then the restore.
C15_Witness ==
    /\ Len(fn_out) = 3
    /\ fn_in.focused_pane = "MainView"
    /\ fn_out[1].op = "focus_modal"
    /\ fn_out[2].op = "focus_pane"
    /\ fn_out[2].pane = "Modal"
    /\ fn_out[3].op = "restore_focus_after_modal"

\* The history request of the input gets as far as the explorer: a usable key
\* and a chain with an explorer.
HistoryRequested(i) ==
    /\ i.secrets.etherscan_api_key = Some(SecretValue)
    /\ i.addr.chain \in SupportedChains

\* The history request of the input succeeds with zero rows.
EmptyHistory(i) ==
    HistoryRequested(i) /\ i.txr.kind = "ok" /\ i.txr.entries = <<>>

\* The history request of the input fails: no key, no explorer for the chain,
\* or a failed exchange.
FailedHistory(i) ==
    \/ i.secrets.etherscan_api_key \in {None, Some(<<" ">>)}
    \/ i.addr.chain \notin SupportedChains
    \/ i.txr \in FailedHistories

\* The notes hydrate_address writes for the inputs whose history is empty.
EmptyHistoryNotes ==
    {hydrate_address(i.addr, i.secrets, i.env_rpc, i.ov, i.fb, i.txr).transactions :
        i \in {j \in HydrateInputs : EmptyHistory(j)}}

\* C13: a history fetched with zero rows gives no transactions table and a
\* note that starts "No transactions available"; a failed fetch (missing key,
\* unsupported chain, failed exchange) gives no table either and a note that
\* is none of the notes written for an empty history.
C13_EmptyHistoryNote ==
    fn_out # <<>> =>
       /\ EmptyHistory(fn_in) =>
             /\ fn_out[1].transactions_table = None
             /\ Len(fn_out[1].transactions) = 1
             /\ fn_out[1].transactions[1][1] = "No transactions available via "
       /\ FailedHistory(fn_in) =>
             /\ fn_out[1].transactions_table = None
             /\ fn_out[1].transactions \notin EmptyHistoryNotes

\* An empty history on Sepolia has been turned into a view.
C13_Witness ==
    /\ fn_out # <<>>
    /\ EmptyHistory(fn_in)
    /\ fn_in.addr.chain = Sepolia
    /\ fn_out[1].transactions_table = None

SelectionEvents == {"SelectionChanged", "StartupSelection"}

\* The selection events of the current step, in the order they happened.
SelectionsOfStep ==
    SelectSeq(dispatched, LAMBDA action : action.type \in SelectionEvents)

\* C18: in the state a selection event leaves behind (the startup selection
\* or a SelectionChanged of the current step, the loop not yet gone on to
\* tick or render), the MainView loading flag is set, current_address is
\* None when an address was selected and current_transaction is None when a
\* transaction was selected.
C18_SelectionClearsView ==
    \A i \in 1..Len(SelectionsOfStep) :
       /\ state.loading.main_view
       /\ SelectionsOfStep[i].entity.kind = "Address" => state.current_address = None
       /\ SelectionsOfStep[i].entity.kind = "Transaction"
             => state.current_transaction = None

\* A transaction was selected by the user while the data of an address
\* loaded earlier is still held.
C18_Witness ==
    /\ inputs > 0
    /\ SelectionsOfStep # <<>>
    /\ SelectionsOfStep[Len(SelectionsOfStep)].type = "SelectionChanged"
    /\ SelectionsOfStep[Len(SelectionsOfStep)].entity.kind = "Transaction"
    /\ state.current_address # None

\* The entities a SelectionChanged can carry: those of the sidebar lists.
Selectable ==
    {sidebar.addresses[i] : i \in 1..Len(sidebar.addresses)}
    \cup {sidebar.transactions[i] : i \in 1..Len(sidebar.transactions)}

\* A hydration task for the entity is among the running tasks of the bag.
HydrationTasks(bag, entity) ==
    {t \in DOMAIN bag :
        IF entity.kind = "Address"
        THEN t.kind = "hydrate_address" /\ t.addr = entity
        ELSE t.kind = "hydrate_transaction" /\ t.tx = entity}

\* What SelectionChanged(entity) has to leave behind in the application b
\* when dispatched in the application a.
SelectionApplied(a, b, entity) ==
    /\ b.state.selected = Some(entity)
    /\ b.state.search_error = None
    /\ b.state.navigation.main_view_mode = entity.kind
    /\ b.state.navigation.main_view_tab
          = (IF entity.kind = "Address" THEN "AddressInfo" ELSE "TransactionSummary")
    /\ \E t \in HydrationTasks(b.tasks, entity) :
          b.tasks[t] = (IF t \in DOMAIN a.tasks THEN a.tasks[t] ELSE 0) + 1

\* C19: dispatching SelectionChanged(e) in any state in which the loop waits
\* for an event (every application state the loop goes through is one of
\* them, tick and render passing it on unchanged) selects e, clears
\* search_error, sets main_view_mode to the kind of e and main_view_tab to
\* AddressInfo or TransactionSummary, and adds one hydration task for e; and
\* the state a handler leaves behind after its last SelectionChanged(e) has e
\* selected, search_error cleared, that mode and tab, and a hydration task
\* for e running.
C19_SelectionChanged ==
    /\ pc = "events" =>
          \A e \in Selectable :
             SelectionApplied(Self,
                              dispatch(Self, [type |-> "SelectionChanged", entity |-> e]), e)
    /\ (SelectionsOfStep # <<>> /\ inputs > 0) =>
          LET e == SelectionsOfStep[Len(SelectionsOfStep)].entity
          IN /\ state.selected = Some(e)
             /\ state.search_error = None
             /\ state.navigation.main_view_mode = e.kind
             /\ state.navigation.main_view_tab
                   = (IF e.kind = "Address" THEN "AddressInfo" ELSE "TransactionSummary")
             /\ HydrationTasks(tasks, e) # {}

\* The user selected a transaction, which is now shown on its summary tab.
C19_Witness ==
    /\ inputs > 0
    /\ SelectionsOfStep # <<>>
    /\ SelectionsOfStep[Len(SelectionsOfStep)].entity.kind = "Transaction"
    /\ state.selected = Some(SelectionsOfStep[Len(SelectionsOfStep)].entity)
    /\ state.navigation.main_view_tab = "TransactionSummary"

\* Quit is among the actions dispatched during the step just taken.
QuitDispatched(actions) ==
    \E i \in 1..Len(actions) : actions[i].type = "Quit"

\* C20 as stated: a step that dispatches Quit clears the running flag and is
\* the last step of the loop: the loop has exited after it and no tick, drain,
\* render, input step or task delivery follows, so no variable changes any
\* more; and the loop exits only by a step that dispatched Quit or by a step
\* that returned an error: after every other step it goes on.
C20_QuitEndsLoop ==
    [][ /\ pc \in {"tick", "render", "events"}
        /\ QuitDispatched(dispatched') => (pc' = "done" /\ ~running')
        /\ pc' = "done" => QuitDispatched(dispatched')
        /\ pc' = "failed" => ~QuitDispatched(dispatched')
        /\ pc' \in {"tick", "render", "events", "done", "failed"}
        /\ (running /\ ~running') => QuitDispatched(dispatched') ]_vars

\* What holds of Quit: the step that dispatches it is the last one, and the
\* running flag is cleared by nothing else.
QuitIsLastStep ==
    [][ /\ pc \in {"tick", "render", "events"}
        /\ QuitDispatched(dispatched') => (pc' = "done" /\ ~running')
        /\ pc' = "done" => QuitDispatched(dispatched')
        /\ pc' = "failed" => ~QuitDispatched(dispatched')
        /\ (running /\ ~running') => QuitDispatched(dispatched') ]_vars

HydrationKinds == {"hydrate_address", "hydrate_transaction"}

EntityOf(task) == IF task.kind = "hydrate_address" THEN task.addr ELSE task.tx

\* The number of hydration tasks of the bag that work on the entity.
Hydrations(bag, entity) ==
    LET for == HydrationTasks(bag, entity)
    IN TaskCount([t \in for |-> bag[t]])

\* The number of selection events for the entity among the actions.
Selections(actions, entity) ==
    Len(SelectSeq(actions, LAMBDA action :
                     action.type \in SelectionEvents /\ action.entity = entity))

HydratedEntities(bag) == {EntityOf(t) : t \in {u \in DOMAIN bag : u.kind \in HydrationKinds}}

SelectedEntities(actions) ==
    {actions[i].entity : i \in {j \in 1..Len(actions) : actions[j].type \in SelectionEvents}}

\* The message is the one message of the task.
MessageOf(task, m) ==
    CASE task.kind = "hydrate_address" ->
           m.type = "AddressHydrated" /\ m.data.identifier = task.addr.address
      [] task.kind = "hydrate_transaction" ->
           m.type = "TransactionHydrated" /\ m.data.identifier = task.tx.hash
      [] OTHER -> m.type \in {"SearchCompleted", "SearchFailed"}

\* A step that enqueues: one task leaves the bag and its one message is
\* appended to the channel.
OneDelivery ==
    /\ Len(channel') = Len(channel) + 1
    /\ SubSeq(channel', 1, Len(channel)) = channel
    /\ \E task \in DOMAIN tasks :
          /\ tasks' = TaskRemove(tasks, task)
          /\ MessageOf(task, channel'[Len(channel')])

\* A step of the loop: nothing is enqueued, no task leaves the bag, and the
\* hydration tasks added are one for each selection event of the step.
OneLaunchPerSelection ==
    /\ channel' \in {channel} \cup (IF channel = <<>> THEN {} ELSE {Tail(channel)})
    /\ \A t \in DOMAIN tasks : t \in DOMAIN tasks' /\ tasks'[t] >= tasks[t]
    /\ \A e \in HydratedEntities(tasks') \cup SelectedEntities(dispatched') :
          Hydrations(tasks', e) = Hydrations(tasks, e) + Selections(dispatched', e)

\* The startup selection has launched its one task.
StartupLaunch ==
    \A i \in 1..Len(dispatched) :
       dispatched[i].type = "StartupSelection"
          => /\ Hydrations(tasks, dispatched[i].entity) = 1
             /\ TaskCount(tasks) = 1

TaskRunning == DOMAIN tasks # {}

LoopExited == pc \in {"done", "failed", "panicked"}

\* The step takes a task out of the bag or puts a message into the channel.
TaskStep ==
    \/ TaskCount(tasks') < TaskCount(tasks)
    \/ Len(channel') > Len(channel)

LaunchAndDelivery ==
    /\ []StartupLaunch
    /\ [][IF TaskStep THEN OneDelivery ELSE OneLaunchPerSelection]_vars

\* C17 as stated: one task per selection event, one message per task, and
\* whenever tasks run, eventually all of them have delivered.
C17_EveryTaskDelivers ==
    /\ LaunchAndDelivery
    /\ TaskRunning ~> ~TaskRunning

\* C17: every selection event (the startup selection, each SelectionChanged)
\* adds exactly one hydration task for its entity; a task leaves the bag only
\* by enqueuing exactly one message, AddressHydrated or TransactionHydrated
\* with the identifier of its entity; no task is removed otherwise or added
\* without a selection event; and whenever tasks run, eventually all of them
\* have delivered unless the main loop has exited before.
C17_TaskDeliversWhileLoopRuns ==
    /\ LaunchAndDelivery
    /\ TaskRunning ~> (~TaskRunning \/ LoopExited)

\* The hydration launched by a selection of the user has delivered its
\* message and no task is left.
C17_Witness ==
    /\ inputs > 0
    /\ channel # <<>>
    /\ channel[Len(channel)].type \in HydrationTypes
    /\ ~TaskRunning
    /\ IsSome(state.selected)
    /\ channel[Len(channel)].data.identifier = EntityKey(Unwrap(state.selected))

\* The step takes a message out of the channel.
Consumed == Len(channel') < Len(channel)

\* The loop moves on from one call of run's loop body to the next.
Moves(from, to) == pc = from /\ pc' = to

Processed(message) ==
    \E io_ok \in BOOLEAN :
       LET a == drain_message(Self, message, io_ok)
       IN /\ state' = a.state
          /\ top_bar' = a.top_bar
          /\ sidebar' = a.sidebar
          /\ tasks' = a.tasks

\* A step keeps the order of the channel: it takes and processes the oldest
\* message, in tick, or it leaves the queued messages as they are and appends
\* at most one.
DrainInOrder ==
    IF Consumed
    THEN /\ pc = "tick"
         /\ channel' = Tail(channel)
         /\ Processed(Head(channel))
    ELSE /\ Len(channel') <= Len(channel) + 1
         /\ SubSeq(channel', 1, Len(channel)) = channel

\* C22: messages leave the channel only in the drain, oldest first, each one
\* processed as it is taken; the drain ends (tick returns) only with the
\* channel empty and does not wait when it finds it empty; and while the loop
\* runs, the loop being in tick or a message being queued leads to the drain
\* having emptied the channel and tick having returned.
C22_DrainInArrivalOrder ==
    /\ [][DrainInOrder /\ (Moves("tick", "render") => channel = <<>>)]_vars
    /\ (pc = "tick" \/ channel # <<>>)
          ~> ((pc = "render" /\ channel = <<>>) \/ LoopExited)

\* Two different messages are queued when the drain starts.
C22_Witness ==
    /\ pc = "tick"
    /\ Len(channel) = 2
    /\ channel[1] # channel[2]

\* The transaction hydrations the step has launched.
LaunchedTransactions ==
    {t \in DOMAIN tasks' :
        /\ t.kind = "hydrate_transaction"
        /\ (t \notin DOMAIN tasks \/ tasks'[t] > tasks[t])}

\* The rows of the address table on display.
TableRows ==
    IF IsSome(state.current_address)
       /\ IsSome(Unwrap(state.current_address).transactions_table)
    THEN LET rows == Unwrap(Unwrap(state.current_address).transactions_table).rows
         IN {rows[i] : i \in 1..Len(rows)}
    ELSE {}

\* The preview rows known for the hash when the step starts: the rows of the
\* table on display with that hash and the row cached under it.
KnownRows(h) ==
    {r \in TableRows : r.hash = h}
    \cup (IF IsSome(MapGet(state.transaction_preview_cache, h))
          THEN {Unwrap(MapGet(state.transaction_preview_cache, h))} ELSE {})

\* The task is seeded with a row known for its hash, and with none only when
\* none is known.
SeededFromKnownRow(t) ==
    IF KnownRows(t.tx.hash) = {}
    THEN t.preview = None
    ELSE IsSome(t.preview) /\ Unwrap(t.preview) \in KnownRows(t.tx.hash)

\* The data of the message are those of the preview row, or absent.
SeededData(t, data) ==
    IF IsSome(t.preview)
    THEN LET row == Unwrap(t.preview)
         IN /\ data.from = Some(row.from)
            /\ data.to = row.to
            /\ data.value_formatted = Some(row.value_display)
            /\ data.status = Some(row.status)
            /\ data.block_number = row.block_number
    ELSE /\ data.from = None
         /\ data.to = None
         /\ data.value_formatted = None
         /\ data.status = None
         /\ data.block_number = None

\* C23: a transaction hydration is launched with a preview row known for its
\* hash at that moment (a row of the table on display or the row cached under
\* the hash) when there is one and with no row otherwise; the row of a task
\* always has the hash of the task's transaction; no pending preview is left
\* behind for a later selection; and the message of the task carries from, to,
\* value, status and block of that row, or none of them when it has no row.
C23_PreviewSeedsTransaction ==
    /\ [](/\ state.pending_transaction_preview = None
          /\ \A t \in DOMAIN tasks :
                (t.kind = "hydrate_transaction" /\ IsSome(t.preview))
                   => Unwrap(t.preview).hash = t.tx.hash)
    /\ [][ /\ \A t \in LaunchedTransactions : SeededFromKnownRow(t)
           /\ \A t \in DOMAIN tasks :
                 (t.kind = "hydrate_transaction" /\ TaskStep /\ tasks' = TaskRemove(tasks, t))
                    => /\ channel'[Len(channel')].type = "TransactionHydrated"
                       /\ channel'[Len(channel')].data.identifier = t.tx.hash
                       /\ SeededData(t, channel'[Len(channel')].data) ]_vars

\* The row activated in the address table seeded a hydration whose message
\* is now queued.
C23_Witness ==
    /\ channel # <<>>
    /\ channel[Len(channel)].type = "TransactionHydrated"
    /\ channel[Len(channel)].data.from # None
    /\ state.selected # None
    /\ Unwrap(state.selected).kind = "Transaction"
    /\ Unwrap(state.selected).hash = channel[Len(channel)].data.identifier

\* Every line of the panel has text.
NonEmptyLines(lines) ==
    /\ lines # <<>>
    /\ \A i \in 1..Len(lines) : lines[i] # <<>> /\ lines[i][1] # ""

\* C24: whatever the outcomes of the overview request and of the history
\* request (success, error, timeout, no RPC endpoint, unparsable address, no
\* API key, unsupported chain), hydrate_address returns a view for the
\* address asked for whose info lines and transactions lines are non-empty.
C24_AlwaysSomePanel ==
    fn_out # <<>> =>
       /\ fn_out[1].identifier = fn_in.addr.address
       /\ NonEmptyLines(fn_out[1].info)
       /\ NonEmptyLines(fn_out[1].transactions)

\* No RPC endpoint (none stored, a blank in the environment), no API key, and
\* still a view with both panels filled.
C24_Witness ==
    /\ fn_out # <<>>
    /\ fn_in.secrets.anvil_rpc_url = None
    /\ fn_in.env_rpc = Some(<<" ">>)
    /\ fn_in.secrets.etherscan_api_key = None
    /\ Len(fn_out[1].info) = 1
    /\ Len(fn_out[1].transactions) = 2

\* The endpoint the task of the input asks: the stored one, else the one of
\* the environment as it stands there.
RpcEndpoint(i) ==
    IF i.secrets.anvil_rpc_url # None THEN i.secrets.anvil_rpc_url
    ELSE IF i.env_rpc # None /\ Trim(Unwrap(i.env_rpc)) # <<>> THEN i.env_rpc
    ELSE None

\* The overview request of the input was made and failed or timed out.
OverviewFailed(i) ==
    /\ RpcEndpoint(i) # None
    /\ i.addr.address = AddrA
    /\ i.ov.kind \in {"error", "timeout"}

DegradationNote(i) ==
    IF i.ov.kind = "error"
    THEN <<"Failed to load account data: ", "error">>
    ELSE <<"Account query to ">> \o Unwrap(RpcEndpoint(i)) \o <<" timed out">>

HasLine(lines, line) == \E k \in 1..Len(lines) : lines[k] = line

\* The input with the overview request answered and an RPC endpoint given.
WithOverview(i) ==
    [i EXCEPT !.ov = [kind |-> "ok", data |-> Overview1],
              !.secrets.anvil_rpc_url = Some(SecretValue)]

\* C26: when the overview request fails or times out, the view has no
\* overview, its info lines hold the note of the failure, and they hold the
\* block of the fallback request exactly when that request succeeded, the
\* fallback being given less time than the overview request; and the
\* transactions lines and the transactions table are those of the history
\* request on every path, whatever became of the overview request.
C26_OverviewFailureDegrades ==
    fn_out # <<>> =>
       /\ OverviewFailed(fn_in) =>
             /\ fn_out[1].overview = None
             /\ HasLine(fn_out[1].info, DegradationNote(fn_in))
             /\ HasLine(fn_out[1].info, <<"Latest block observed: ", "7">>)
                   <=> fn_in.fb.kind = "ok"
             /\ FallbackTimeoutSecs < OverviewTimeoutSecs
       /\ LET reference == hydrate_address(WithOverview(fn_in).addr, WithOverview(fn_in).secrets,
                                           fn_in.env_rpc, WithOverview(fn_in).ov, fn_in.fb,
                                           fn_in.txr)
          IN /\ fn_out[1].transactions = reference.transactions
             /\ fn_out[1].transactions_table = reference.transactions_table

\* The overview request, sent to the endpoint of the environment, timed out,
\* the fallback gave a block and the history was fetched.
C26_Witness ==
    /\ fn_out # <<>>
    /\ OverviewFailed(fn_in)
    /\ fn_in.secrets.anvil_rpc_url = None
    /\ fn_in.ov.kind = "timeout"
    /\ fn_in.fb.kind = "ok"
    /\ fn_out[1].transactions_table # None

NonBlank(value) == Trim(value) # <<>>

BothFilled(i) == NonBlank(i.etherscan) /\ NonBlank(i.anvil)

TrimmedSecrets(i) ==
    [etherscan_api_key |-> Some(Trim(i.etherscan)), anvil_rpc_url |-> Some(Trim(i.anvil))]

\* Both trimmed values are in the store and in state.secrets, the modal is
\* closed and the focus is back on the remembered pane.
SecretsSaved(i, b) ==
    /\ b.storage.secrets = TrimmedSecrets(i)
    /\ b.state.secrets = TrimmedSecrets(i)
    /\ b.secrets_modal = None
    /\ b.state.navigation.focused_pane = ModalApp(i).state.navigation.modal_return_focus
    /\ b.state.navigation.focused_pane # "Modal"

\* Nothing is written and the modal stays open with the focus on it.
SecretsUntouched(i, b) ==
    /\ b.storage.secrets = ModalApp(i).storage.secrets
    /\ b.state.secrets = ModalApp(i).state.secrets
    /\ b.secrets_modal # None
    /\ b.state.navigation.focused_pane = "Modal"

\* C25 as stated: Submit saves if and only if both fields are non-blank.
C25_SubmitSavesIffFilled ==
    fn_out # <<>> =>
       IF BothFilled(fn_in) THEN SecretsSaved(fn_in, fn_out[1])
       ELSE SecretsUntouched(fn_in, fn_out[1])

\* What Submit does: with a blank field it writes nothing, leaves state.secrets
\* as it is and keeps the modal open and focused; with both fields non-blank
\* and both store writes succeeding it writes the trimmed values to the
\* store and to state.secrets, closes the modal and returns the focus to the
\* remembered pane; with both fields non-blank and a store write failing it
\* returns the error, state.secrets is unchanged, the modal stays open, and
\* the store holds the new API key alone when it was the second write that
\* failed.
SubmitSavesWhenStored ==
    fn_out # <<>> =>
       /\ ~BothFilled(fn_in) => (SecretsUntouched(fn_in, fn_out[1]) /\ ~fn_out[1].err)
       /\ (BothFilled(fn_in) /\ fn_in.fail_at = 0)
             => (SecretsSaved(fn_in, fn_out[1]) /\ ~fn_out[1].err)
       /\ (BothFilled(fn_in) /\ fn_in.fail_at # 0)
             => /\ fn_out[1].err
                /\ fn_out[1].state.secrets = ModalApp(fn_in).state.secrets
                /\ fn_out[1].secrets_modal # None
                /\ fn_out[1].state.navigation.focused_pane = "Modal"
                /\ fn_out[1].storage.secrets =
                      IF fn_in.fail_at = 1 THEN ModalApp(fn_in).storage.secrets
                      ELSE [ModalApp(fn_in).storage.secrets EXCEPT
                              !.etherscan_api_key = Some(Trim(fn_in.etherscan))]

TargetIsSender(i) == eq_ignore_ascii_case(i.tx.from, i.target)

TargetIsRecipient(i) ==
    IsSome(i.tx.to) /\ eq_ignore_ascii_case(Unwrap(i.tx.to), i.target)

\* C27 as stated: "Contract creation" whenever there is no recipient,
\* otherwise the shortened recipient when the target is the sender and the
\* shortened sender when the target is the recipient.
C27_CounterpartyOtherSide ==
    fn_out # <<>> /\ fn_in \in [target : RowTargets, tx : RowTransactions] =>
       IF fn_in.tx.to = None
       THEN fn_out[1].counterparty = <<"Contract creation">>
       ELSE /\ TargetIsSender(fn_in)
                => fn_out[1].counterparty = short_hex(Unwrap(fn_in.tx.to))
            /\ TargetIsRecipient(fn_in)
                => fn_out[1].counterparty = short_hex(fn_in.tx.from)

\* C27: the counterparty of the constructed row is "Self" when the target
\* is both sender and recipient; when the target is the sender only it is
\* "Contract creation" if the transaction has no recipient and the shortened
\* recipient otherwise; when the target is the recipient only it is the
\* shortened sender; when the target is neither it is the shortened
\* recipient, or the shortened sender if there is no recipient.  The target
\* is compared with the two sides ignoring ASCII case.
C27_CounterpartyByRole ==
    fn_out # <<>> /\ fn_in \in [target : RowTargets, tx : RowTransactions] =>
       fn_out[1].counterparty =
          CASE TargetIsSender(fn_in) /\ TargetIsRecipient(fn_in) -> <<"Self">>
            [] TargetIsSender(fn_in) /\ ~TargetIsRecipient(fn_in) ->
                 (IF fn_in.tx.to = None THEN <<"Contract creation">>
                  ELSE short_hex(Unwrap(fn_in.tx.to)))
            [] ~TargetIsSender(fn_in) /\ TargetIsRecipient(fn_in) ->
                 short_hex(fn_in.tx.from)
            [] OTHER ->
                 (IF fn_in.tx.to = None THEN short_hex(fn_in.tx.from)
                  ELSE short_hex(Unwrap(fn_in.tx.to)))

\* A transaction received from another address, the recipient written in
\* another letter case than the target: the row shows the shortened sender.
C27_Witness ==
    /\ fn_out # <<>>
    /\ fn_in \in [target : RowTargets, tx : RowTransactions]
    /\ fn_in.target = AddrA
    /\ fn_in.tx.to = Some(AddrAUpper)
    /\ fn_in.tx.from = AddrB
    /\ fn_out[1].counterparty = short_hex(AddrB)
    /\ fn_out[1].counterparty # AddrB

SearchResultNext == channel # <<>> /\ Head(channel).type = "SearchCompleted"

SearchTasks(bag) == {t \in DOMAIN bag : t.kind = "search"}

\* C28: every SearchCompleted message taken from the channel is applied,
\* whatever the search field, the pending flag, the selection and the focus
\* are at that moment: after the step its entity is selected, one more
\* hydration task for it is running, the focus is on MainView, the top bar
\* shows its query and the Top pane no longer loads.
C28_SearchResultApplied ==
    [][(Consumed /\ SearchResultNext) =>
         LET m == Head(channel)
         IN /\ state'.selected = Some(m.entity)
            /\ state'.navigation.focused_pane = "MainView"
            /\ state'.navigation.main_view_mode = m.entity.kind
            /\ \E t \in HydrationTasks(tasks', m.entity) :
                  tasks'[t] = (IF t \in DOMAIN tasks THEN tasks[t] ELSE 0) + 1
            /\ top_bar'.search_value = m.query
            /\ ~top_bar'.search_active
            /\ ~top_bar'.pending_search
            /\ ~state'.loading.top]_vars

\* The step just taken applied the result of a search for the query.
SearchApplied(query) ==
    LET e == decode_query(query).entity
    IN /\ pc = "tick"
       /\ dispatched = <<[type |-> "SelectionChanged", entity |-> e]>>
       /\ state.selected = Some(e)
       /\ state.navigation.focused_pane = "MainView"
       /\ top_bar.search_value = query
       /\ HydrationTasks(tasks, e) # {}

\* The result of the cancelled search for an address was applied after the
\* user had selected a transaction, whose hydration is still running.
C28_Witness ==
    /\ SearchApplied(AddrB)
    /\ inputs > 1
    /\ \E t \in DOMAIN tasks : t.kind = "hydrate_transaction" /\ t.tx.hash = HashC

SameAddress(x, y) == eq_ignore_ascii_case(x, y)

AddressSelected == IsSome(state.selected) /\ Unwrap(state.selected).kind = "Address"

\* The favorites membership test finds the selected address when a favorite
\* differs from it in letter case only.
MembershipIgnoresCase ==
    (AddressSelected
       /\ \E k \in state.favorite_addresses : SameAddress(k, Unwrap(state.selected).address))
    => is_favorite(state, Unwrap(state.selected))

\* Neither the favorites nor the sidebar hold one address twice in two
\* spellings.
NoDuplicateIgnoringCase ==
    /\ \A k, l \in state.favorite_addresses : SameAddress(k, l) => k = l
    /\ \A i, j \in 1..Len(sidebar.addresses) :
          SameAddress(sidebar.addresses[i].address, sidebar.addresses[j].address) => i = j

\* A hydration result whose identifier is the selected address in another
\* spelling is accepted by the drain.
StalenessIgnoresCase ==
    (/\ Consumed
     /\ Head(channel).type = "AddressHydrated"
     /\ AddressSelected
     /\ SameAddress(Unwrap(state.selected).address, Head(channel).data.identifier))
    => state'.current_address = Some(Head(channel).data)

\* C29 as stated: addresses that differ only in letter case are the same
\* address for the favorites membership test, for the sidebar's duplicate
\* check and for the staleness check of the drain.
C29_AddressIdentityIgnoresCase ==
    /\ [](MembershipIgnoresCase /\ NoDuplicateIgnoringCase)
    /\ [][StalenessIgnoresCase]_vars

RowCommands ==
    {[type |-> "MoveSelectionUp"], [type |-> "MoveSelectionDown"],
     [type |-> "ActivateSelection"]}

RowKeys == {Key("NONE", "j"), Key("NONE", "k"), Key("NONE", "Enter")}

\* The application as it would be with the MainView pane not loading.
NotLoading == [Self EXCEPT !.state.loading = set_loading(@, "MainView", FALSE)]

\* C30: in every state with the MainView pane marked loading, each of
\* MoveSelectionUp, MoveSelectionDown and ActivateSelection returns no action
\* and leaves the whole application as it is (row cursor, selection, pending
\* preview, navigation, tasks); so do the keys bound to them when MainView
\* has the focus.
C30_LoadingBlocksRowCommands ==
    state.loading.main_view =>
       /\ \A cmd \in RowCommands :
             /\ MainView_update(Self, cmd).action = None
             /\ MainView_update(Self, cmd).a = Self
             /\ main_view_command(Self, cmd) = Self
       /\ (state.navigation.focused_pane = "MainView" /\ ~top_bar.search_active) =>
             \A key \in RowKeys : on_key_event(Self, key, 0) = Self

\* The pane is loading while the transactions table of an address is on
\* display: without the loading flag the same commands would move the cursor
\* or open a transaction.
C30_Witness ==
    /\ state.loading.main_view
    /\ state.navigation.focused_pane = "MainView"
    /\ \E cmd \in RowCommands : main_view_command(NotLoading, cmd) # NotLoading

(***************************************************************************)
(* Claims about the favorites lists, the modal and the hydrated data.      *)
(***************************************************************************)
LastToggleDone == toggle_log # <<>> /\ toggle_log[Len(toggle_log)].ok

\* The entity the last toggle_favorite call acted on.
Toggled == Unwrap(toggle_log[Len(toggle_log)].before.selected)

WasFavorite ==
    LET before == toggle_log[Len(toggle_log)].before
    IN IF Toggled.kind = "Address"
       THEN Toggled.address \in before.favorite_addresses
       ELSE Toggled.hash \in before.favorite_transactions

\* The display list of the given kind in a Favorites record.
ListOf(f, kind) ==
    IF kind = "Address" THEN f.sidebar_addresses ELSE f.sidebar_transactions

OtherKind(kind) == IF kind = "Address" THEN "Transaction" ELSE "Address"

Without(list, entity) ==
    LET Keep(x) == EntityKey(x) # EntityKey(entity)
    IN SelectSeq(list, Keep)

\* C31: a completed toggle of a non-favorite puts the entity at index 0 of
\* the display list of its kind, in front of the entries that were there, in
\* their order; a completed toggle of a favorite removes exactly the one
\* entry of that entity and keeps the others in their order; the display list
\* of the other kind is as before in both cases.
C31_ToggleKeepsListOrder ==
    LastToggleDone =>
       LET before == toggle_log[Len(toggle_log)].before
           now == Favorites(Self)
           kind == Toggled.kind
       IN /\ ListOf(now, OtherKind(kind)) = ListOf(before, OtherKind(kind))
          /\ ~WasFavorite => ListOf(now, kind) = <<Toggled>> \o ListOf(before, kind)
          /\ WasFavorite =>
                /\ ListOf(now, kind) = Without(ListOf(before, kind), Toggled)
                /\ Len(ListOf(now, kind)) = Len(ListOf(before, kind)) - 1

\* A non-favorite was added in front of the favorites already listed, and the
\* next toggle removed it from there again.
C31_Witness ==
    /\ Len(toggle_log) = 2
    /\ toggle_log[1].ok /\ toggle_log[2].ok
    /\ toggle_log[1].before.sidebar_addresses # <<>>
    /\ toggle_log[2].before.sidebar_addresses
          = <<Toggled>> \o toggle_log[1].before.sidebar_addresses
    /\ sidebar.addresses = toggle_log[1].before.sidebar_addresses

\* The keys tried against the open modal: the global commands, the keys of
\* the form and the quit chord.
ModalKeys ==
    KeyInputs \cup {Key("CONTROL", "c"), Key("CONTROL", "C"), Key("CONTROL", "u"),
                    Key("NONE", "Backspace"), Key("NONE", "["), Key("NONE", "h"),
                    Key("NONE", "l"), Key("NONE", "1"), Key("SHIFT", "F"),
                    Key("NONE", "Up"), Key("NONE", "Down")}

\* What an input to the modal did: the application after each key of
\* ModalKeys under each outcome of the secrets store, and after each paste.
ModalInputs ==
    {[key |-> key, after |-> on_key_event(Self, key, io)] :
        key \in ModalKeys, io \in 0..2}
    \cup {[key |-> Key("NONE", "Paste"), after |-> on_paste_event(Self, content)] :
             content \in PasteInputs}

\* Selection, favorites, tab navigation, search state and background work.
BehindModal(a) ==
    [selected |-> a.state.selected,
     favorite_addresses |-> a.state.favorite_addresses,
     favorite_transactions |-> a.state.favorite_transactions,
     stored_addresses |-> a.storage.favorites_addresses,
     stored_transactions |-> a.storage.favorites_transactions,
     sidebar |-> a.sidebar,
     sidebar_tab |-> a.state.navigation.sidebar_tab,
     main_view_mode |-> a.state.navigation.main_view_mode,
     main_view_tab |-> a.state.navigation.main_view_tab,
     search_active |-> a.top_bar.search_active,
     search_value |-> a.top_bar.search_value,
     pending_search |-> a.top_bar.pending_search,
     tasks |-> a.tasks]

\* The form was edited (or left alone): nothing but the modal differs.
FormEdited(a, b) ==
    /\ IsSome(b.secrets_modal)
    /\ b = [a EXCEPT !.secrets_modal = b.secrets_modal]

Closed(a) ==
    [a EXCEPT !.secrets_modal = None,
              !.state.navigation.focused_pane = a.state.navigation.modal_return_focus]

\* CloseModal: the modal is gone and the focus is back on the remembered pane.
ModalClosed(a, b) == b = Closed(a)

\* SecretsSaved: the trimmed values are in the store and in the state, the
\* modal is closed and the status line says so.
ModalSaved(a, b) ==
    /\ IsSome(b.state.secrets.etherscan_api_key)
    /\ IsSome(b.state.secrets.anvil_rpc_url)
    /\ b = [Closed(a) EXCEPT !.state.secrets = b.state.secrets,
                             !.storage.secrets = b.state.secrets,
                             !.top_bar.status = Some(<<"Secrets updated">>)]

ModalQuit(a, b, key) ==
    /\ key.mods = "CONTROL" /\ key.code \in {"c", "C"}
    /\ b = [a EXCEPT !.running = FALSE, !.dispatched = Append(@, PlainAction("Quit"))]

\* Submit met a failing secrets store: the handler returns the error with the
\* form still open; the first write may have reached the store.
ModalStoreFailed(a, b, key) ==
    /\ key.code = "Enter"
    /\ b.err
    /\ b = [a EXCEPT !.err = TRUE,
                     !.storage.secrets.etherscan_api_key = b.storage.secrets.etherscan_api_key]

ModalFocused == state.navigation.focused_pane = "Modal"

\* C32 as stated: while the focus is Modal every key or paste leaves the
\* selection, the favorites, the tab navigation and the search state alone,
\* and does nothing but edit the form, close the modal, save the secrets or
\* quit on Ctrl+C.
C32_ModalTakesAllInput ==
    ModalFocused =>
       \A i \in ModalInputs :
          /\ BehindModal(i.after) = BehindModal(Self)
          /\ \/ FormEdited(Self, i.after)
             \/ ModalClosed(Self, i.after)
             \/ ModalSaved(Self, i.after)
             \/ ModalQuit(Self, i.after, i.key)

\* What holds of input with the focus on Modal: as stated, with one more
\* outcome: a Submit whose secrets-store write fails returns the error that
\* ends the main loop.
ModalTakesAllInputOrFails ==
    ModalFocused =>
       \A i \in ModalInputs :
          /\ BehindModal(i.after) = BehindModal(Self)
          /\ \/ FormEdited(Self, i.after)
             \/ ModalClosed(Self, i.after)
             \/ ModalSaved(Self, i.after)
             \/ ModalQuit(Self, i.after, i.key)
             \/ ModalStoreFailed(Self, i.after, i.key)

\* The step is a toggle_favorite call made with an entity selected.
ToggleStep == Len(toggle_log') = Len(toggle_log) + 1

\* C33: a toggle_favorite call, whether it adds or removes the favorite and
\* whatever the sidebar tab, leaves the selected entity, current_address,
\* current_transaction and the MainView loading flag as they were and
\* launches no background task.
C33_ToggleTouchesFavoritesOnly ==
    [][ToggleStep =>
          /\ state'.selected = state.selected
          /\ state'.current_address = state.current_address
          /\ state'.current_transaction = state.current_transaction
          /\ state'.loading.main_view = state.loading.main_view
          /\ tasks' = tasks]_vars

\* C34: hydrated data of the selected kind belongs to the selected entity:
\* with an address selected, current_address, when present, carries the
\* selected address; with a transaction selected, current_transaction, when
\* present, carries the selected hash.
C34_HydratedDataOfSelection ==
    IsSome(state.selected) =>
       LET selected == Unwrap(state.selected)
       IN /\ (selected.kind = "Address" /\ IsSome(state.current_address)) =>
                Unwrap(state.current_address).identifier = selected.address
          /\ (selected.kind = "Transaction" /\ IsSome(state.current_transaction)) =>
                Unwrap(state.current_transaction).identifier = selected.hash

\* The user moved from a hydrated address to a favorite transaction, whose
\* result was applied; the data of the address is still held.
C34_Witness ==
    /\ IsSome(state.selected)
    /\ Unwrap(state.selected).kind = "Transaction"
    /\ IsSome(state.current_transaction)
    /\ Unwrap(state.current_transaction).identifier = Unwrap(state.selected).hash
    /\ IsSome(state.current_address)
    /\ inputs > 0

\* The hydrated data of the selected entity's kind.
DataOfSelection ==
    IF Unwrap(state.selected).kind = "Address"
    THEN state.current_address
    ELSE state.current_transaction

\* C35: with an entity selected, the MainView pane is marked loading
\* whenever the hydrated data of the entity's kind is absent.
C35_NoDataMeansLoading ==
    (IsSome(state.selected) /\ ~IsSome(DataOfSelection)) => state.loading.main_view

\* The result for the address selected at startup was drained and discarded
\* after the user had moved on to a transaction: no address data is held,
\* nothing is left in the channel, the one task running is the hydration of
\* the selected transaction, and the pane is still marked loading.
C35_Witness ==
    /\ IsSome(state.selected)
    /\ Unwrap(state.selected).kind = "Transaction"
    /\ AddrA \in state.favorite_addresses
    /\ ~IsSome(DataOfSelection)
    /\ state.loading.main_view
    /\ inputs > 0
    /\ channel = <<>>
    /\ pc = "events"
    /\ \A task \in DOMAIN tasks :
          /\ task.kind \in HydrationKinds
          /\ EntityOf(task) = Unwrap(state.selected)
          /\ tasks[task] = 1
    /\ tasks # EmptyMap
    /\ ~IsSome(state.current_address)
    /\ ~IsSome(state.current_transaction)

\* The pane shows the data of the selected entity and is not loading.
Hydrated ==
    /\ IsSome(state.selected)
    /\ ~state.loading.main_view
    /\ IsSome(DataOfSelection)
    /\ Unwrap(DataOfSelection).identifier = EntityKey(Unwrap(state.selected))

\* C36: with tasks scheduled fairly and the main loop iterating, once the
\* selection events have ceased the MainView loading flag becomes false with
\* hydrated data of the selected entity present, and stays so, whatever stale
\* results arrive before or after; the alternative is that the loop exited.
C36_LastSelectionHydrated == <>LoopExited \/ <>[]Hydrated

\* The last selection, a transaction, is hydrated after the result for the
\* address selected before it was discarded; nothing is running or queued.
C36_Witness ==
    /\ Hydrated
    /\ Unwrap(state.selected).kind = "Transaction"
    /\ ~IsSome(state.current_address)
    /\ tasks = EmptyMap
    /\ channel = <<>>
    /\ inputs = MaxInputs
    /\ ~LoopExited

\* The step dispatches no selection event.
NoSelectionInStep ==
    \A i \in 1..Len(dispatched') : dispatched'[i].type \notin SelectionEvents

DataShown(st) ==
    IF Unwrap(st.selected).kind = "Address" THEN st.current_address
    ELSE st.current_transaction

\* C37: once the result for the selection is on display and the pane is not
\* loading, a step without a selection event changes neither the data on
\* display nor the loading flag: no message arriving later replaces the data.
C37_AppliedResultStays ==
    [][(Hydrated /\ NoSelectionInStep) =>
          /\ DataShown(state') = DataShown(state)
          /\ state'.loading.main_view = state.loading.main_view]_vars

\* What the drain does instead: in that situation the loading flag and the
\* selection stay, and the data on display changes exactly by the drain of a
\* hydration message with the identifier of the selected entity, whose data
\* then replaces it.
ReplacedBySameIdentifier ==
    [][(Hydrated /\ NoSelectionInStep) =>
          /\ state'.selected = state.selected
          /\ state'.loading.main_view = state.loading.main_view
          /\ IF /\ Draining
                /\ Head(channel).type \in HydrationTypes
                /\ ForSelected(Head(channel))
             THEN DataShown(state') = Some(Head(channel).data)
             ELSE DataShown(state') = DataShown(state)]_vars

\* The result on display is about to be replaced: the next message of the
\* drain carries the identifier of the selected entity and other data (the
\* entity was selected twice and both hydration tasks delivered).
ReplacementPending ==
    /\ Hydrated
    /\ pc = "tick"
    /\ channel # <<>>
    /\ Head(channel).type \in HydrationTypes
    /\ ForSelected(Head(channel))
    /\ Head(channel).data # Unwrap(DataShown(state))

\* C38: the drain of a hydration message (AddressHydrated or
\* TransactionHydrated) while the search input is active leaves it active, so
\* that the characters typed next still go to the search field.
C38_HydrationKeepsSearchActive ==
    [][(top_bar.search_active /\ Draining /\ Head(channel).type \in HydrationTypes)
          => top_bar'.search_active]_vars

\* C39: the focus is on the modal layer exactly when the secrets modal is
\* open; a step that closes the modal leaves the focus on a pane, and no step
\* takes the focus from the modal while it stays open.
C39_ModalFocusIffOpen ==
    /\ [](state.navigation.focused_pane = "Modal" <=> IsSome(secrets_modal))
    /\ [][/\ (IsSome(secrets_modal) /\ IsSome(secrets_modal'))
                => state'.navigation.focused_pane = "Modal"
          /\ (IsSome(secrets_modal) /\ ~IsSome(secrets_modal'))
                => state'.navigation.focused_pane \in Panes]_vars

\* The modal is still open and focused after keys were typed into it and the
\* hydration result of the startup selection was drained behind it.
C39_Witness ==
    /\ IsSome(secrets_modal)
    /\ state.navigation.focused_pane = "Modal"
    /\ IsSome(state.current_address)
    /\ inputs > 1
    /\ channel = <<>>

(***************************************************************************)
(* The Sidebar component on its own: fn_in is a sidebar as App::new fills  *)
(* it (set_addresses, set_transactions) with the sidebar tab, fn_out holds *)
(* the last command applied with the sidebar before it and the sidebar and *)
(* the tab after it.  The lists range over all orders of two addresses and *)
(* two transactions, so every sequence of commands over these entities is  *)
(* explored.                                                               *)
(***************************************************************************)
MaxIndex == 3

SidebarAddresses == {<<>>, <<RecordRef("Address", RecA)>>,
                     <<RecordRef("Address", RecA), RecordRef("Address", RecB)>>}

SidebarTransactions == {<<>>, <<RecordRef("Transaction", RecC)>>,
                        <<RecordRef("Transaction", RecC), RecordRef("Transaction", RecD)>>}

SidebarEntities ==
    {RecordRef("Address", RecA), RecordRef("Address", RecB),
     RecordRef("Transaction", RecC), RecordRef("Transaction", RecD)}

SidebarCommands ==
    {[type |-> "MoveUp"], [type |-> "MoveDown"], [type |-> "NextTab"],
     [type |-> "PreviousTab"]}
    \cup {[type |-> "SelectIndex", index |-> i] : i \in 0..MaxIndex}
    \cup {[type |-> "SwitchTab", tab |-> t] : t \in SidebarTab}
    \cup {[type |-> "AddFavorite", entity |-> e] : e \in SidebarEntities}
    \cup {[type |-> "RemoveFavorite", entity |-> e] : e \in SidebarEntities}

InitSidebar ==
    /\ IdleApp
    /\ \E addresses \in SidebarAddresses, transactions \in SidebarTransactions,
          tab \in SidebarTab :
          fn_in = [sidebar |-> set_transactions(
                                   set_addresses(Sidebar_default, addresses, tab),
                                   transactions, tab),
                   tab |-> tab]
    /\ fn_out = <<>>

CurrentSidebar == IF fn_out = <<>> THEN fn_in ELSE [sidebar |-> fn_out[1].sidebar,
                                                    tab |-> fn_out[1].tab]

\* The application the command is sent to: idle but for the sidebar.
SidebarApp ==
    [Self EXCEPT !.sidebar = CurrentSidebar.sidebar,
                 !.state.navigation.sidebar_tab = CurrentSidebar.tab]

SidebarCommand ==
    /\ \E cmd \in SidebarCommands :
          fn_out' = <<[cmd |-> cmd,
                       before |-> CurrentSidebar,
                       sidebar |-> Sidebar_update(SidebarApp, cmd).a.sidebar,
                       tab |-> Sidebar_update(SidebarApp, cmd).a.state.navigation.sidebar_tab]>>
    /\ UNCHANGED <<app_vars, channel, pc, inputs, toggle_log, dispatched, fn_in>>

NextSidebar == SidebarCommand

SpecSidebar == InitSidebar /\ [][NextSidebar]_vars

CursorInRange(sb, tab) ==
    IF Sidebar_len(sb, tab) = 0
    THEN sb.selected_index = 0
    ELSE sb.selected_index < Sidebar_len(sb, tab)

\* The same for the sidebar of the running application.
AppCursorInRange == CursorInRange(sidebar, state.navigation.sidebar_tab)

\* C40: the sidebar cursor is below the length of the display list of the
\* active sidebar tab, or 0 when that list is empty: in the sidebar App::new
\* builds and after every command applied to the component.
C40_CursorInRange ==
    /\ AppCursorInRange
    /\ CursorInRange(CurrentSidebar.sidebar, CurrentSidebar.tab)
    /\ fn_out # <<>> => CursorInRange(fn_out[1].before.sidebar, fn_out[1].before.tab)

\* The cursor stood on the last of two entries when that entry was removed,
\* and was pulled back onto the remaining one.
C40_Witness ==
    /\ fn_out # <<>>
    /\ fn_out[1].cmd.type = "RemoveFavorite"
    /\ fn_out[1].before.sidebar.selected_index = 1
    /\ Sidebar_len(fn_out[1].before.sidebar, fn_out[1].before.tab) = 2
    /\ Sidebar_len(fn_out[1].sidebar, fn_out[1].tab) = 1
    /\ fn_out[1].sidebar.selected_index = 0

====
